----------------------------- MODULE Storefront -----------------------------
(***************************************************************************)
(* What customers are offered and what they say of it: a category, one of  *)
(* its services with its price and advance terms, a package of it and      *)
(* other services, the bookings that copy the terms, and their reviews.    *)
(* Operators edit the catalogue through the API and through the admin      *)
(* site; both read a row without a lock and save all of it later.  A save  *)
(* of a row that somebody deleted meanwhile inserts it again.              *)
(***************************************************************************)
EXTENDS Requests, Integers

CONSTANTS Bookings,
          None,            \* no value, no booking, not made yet; a free lock
          Gone,            \* a deleted row
          Prices, Values,  \* in hundredths; percentages and fixed advances operators enter
          Fee, FeePerUnit, \* the training fee, and whether each unit pays it
          Seeds,           \* terms seed_catalogue may list for the service
          CoreSeed,        \* and the price and advance of a core service
          ItemSets         \* packages operators ask for; "this" is the service

ASSUME StorefrontAssumption ==
    /\ {None, Gone} \cap (Bookings \cup Workers \cup Nat) = {}
    /\ Prices \cup Values \cup {Fee} \subseteq Nat
    /\ FeePerUnit \in BOOLEAN
    /\ {} \notin ItemSets

VARIABLES slug,      \* whether seed_catalogue lists the service, has it as core or retires it
          service,   \* the row of the service, None or Gone
          category,  \* "active", "inactive", None or Gone
          package,   \* the services of the package, or Gone
          bookings,  \* the amounts a booking has copied, and whether it is completed
          reviews,   \* None, "visible" or "hidden"
          rowLock,   \* the lock of each booking, and of the package
          seeded     \* the seed has set amounts since the service was last saved

storefrontVars == <<slug, service, category, package, bookings, reviews, rowLock, seeded,
                    job, requests>>

Row == [base : Prices, selling : Prices \cup {None}, type : {"FIXED", "PERCENTAGE"},
        value : Nat \cup {None}, amount : Nat, active : BOOLEAN]

BookingRow == [total : Nat, advance : Nat, completed : BOOLEAN]

ASSUME RowsAssumption == /\ None \notin Row \cup BookingRow \cup {"visible", "hidden"}
                         /\ Gone \notin Row \cup {None}

Fixed(s) == [base |-> s.base, selling |-> s.selling, type |-> "FIXED", value |-> None,
             amount |-> s.amount, active |-> TRUE]

Seeded(r, s) == [r EXCEPT !.base = s.base, !.selling = s.selling, !.amount = s.amount,
                          !.active = TRUE]

StorefrontInit == /\ slug \in {"listed", "core", "retired"}
                  /\ service = None /\ category = None /\ package = Gone
                  /\ bookings = [b \in Bookings |-> None] /\ reviews = [b \in Bookings |-> None]
                  /\ rowLock = [x \in Bookings \cup {"package"} |-> None]
                  /\ job = [w \in Workers |-> Idle]
                  /\ seeded = FALSE /\ requests = 0

ServiceExists == service \notin {None, Gone}
CategoryExists == category \notin {None, Gone}

Referenced_ByBookings == \E b \in Bookings : bookings[b] # None
Referenced == Referenced_ByBookings \/ (package # Gone /\ "this" \in package)
-----------------------------------------------------------------------------
(* The terms of a service *)

Effective(r) == IF r.selling = None THEN r.base ELSE r.selling

\* Decimal.quantize: the nearest hundredth, halves to the even one.
Quantized(n) == LET q == n \div 100
                    rest == n % 100
                IN IF rest < 50 THEN q ELSE IF rest > 50 THEN q + 1 ELSE q + (q % 2)

AmountOf(r, v) == IF r.type = "PERCENTAGE" THEN Quantized(Effective(r) * v) ELSE v

\* A service without a value falls back to its amount, whatever its type.
ValueOf(r) == IF r.value = None THEN r.amount ELSE r.value

Clean_AnyPercentage(r) == r.amount <= Effective(r)
Clean(r) == /\ (r.type = "PERCENTAGE" /\ r.value # None) => r.value <= 100
            /\ r.amount <= Effective(r)

Valid(r) == IF r.type = "PERCENTAGE" THEN ValueOf(r) <= 100 ELSE ValueOf(r) <= Effective(r)

Synced_WhenAbsent(r) == IF r.value # None THEN r
                        ELSE [r EXCEPT !.value = ValueOf(r), !.amount = AmountOf(r, ValueOf(r))]
Synced(r) == [r EXCEPT !.value = ValueOf(r), !.amount = AmountOf(r, ValueOf(r))]

\* The site takes no value for nothing, and does not round.
SiteValue(r) == IF r.value = None THEN 0 ELSE r.value
SiteSynced(r) == [r EXCEPT !.amount = AmountOf(r, SiteValue(r))]
Exact(r) == r.type = "PERCENTAGE" => (Effective(r) * SiteValue(r)) % 100 = 0

\* What one request may ask of the row it read.
Edited(r) == {[r EXCEPT !.base = p] : p \in Prices}
        \cup {[r EXCEPT !.selling = p] : p \in Prices \cup {None}}
        \cup {[r EXCEPT !.type = t[1], !.value = t[2]] :
                   t \in {"FIXED", "PERCENTAGE"} \X (Values \cup {r.value, None})}
        \cup {[r EXCEPT !.active = a] : a \in BOOLEAN}
\* A row that the seed makes is clean: SeedTermsAssumption says so of the terms in the code.
ASSUME SeedsAssumption == \A s \in Seeds \cup {CoreSeed} : Fixed(s) \in Row /\ Clean(Fixed(s))
-----------------------------------------------------------------------------
(* Services *)

UnchangedButService == UNCHANGED <<slug, category, package, bookings, reviews, rowLock>>

\* What a request for a new service may hold.
NewRows == [base : Prices, selling : {None}, type : {"FIXED", "PERCENTAGE"},
            value : Values \cup {None}, amount : {0}, active : {TRUE}]

CreateService == /\ service = None /\ CategoryExists
                 /\ \E r \in NewRows : /\ Valid(r) /\ Clean(Synced(r))
                                       /\ service' = Synced(r)
                 /\ UNCHANGED <<seeded, job, requests>> /\ UnchangedButService

PatchService(w) == /\ ServiceExists
                   /\ \E r \in Edited(service) :
                         Valid(r) /\ Begin(w, [op |-> "patch", step |-> "read", row |-> r])
                   /\ UNCHANGED <<service, seeded>> /\ UnchangedButService

\* perform_update reads the row once more, to tell what changed.
ReadPrevious(w) == /\ job[w].op = "patch" /\ job[w].step = "read"
                   /\ Go(w, IF service = Gone THEN Idle ELSE [job[w] EXCEPT !.step = "save"])
                   /\ UNCHANGED <<service, seeded>> /\ UnchangedButService

\* Full row, with a category that must exist.
Save(w, r) == /\ IF Clean(r) /\ CategoryExists
                 THEN service' = r /\ seeded' = FALSE
                 ELSE UNCHANGED <<service, seeded>>
              /\ Done(w) /\ UnchangedButService

SaveService(w) == /\ job[w].op = "patch" /\ job[w].step = "save"
                  /\ Save(w, Synced(job[w].row))

SubmitForm(w) == /\ ServiceExists
                 /\ \E r \in Edited(service) :
                       Clean(r) /\ Begin(w, [op |-> "site", row |-> r])
                 /\ UNCHANGED <<service, seeded>> /\ UnchangedButService

\* Trailing zeros of the product are digits too, so an exact amount may be refused.
SaveForm(w) == /\ job[w].op = "site"
               /\ \/ Exact(job[w].row) /\ Save(w, SiteSynced(job[w].row))
                  \/ Done(w) /\ UNCHANGED <<service, seeded>> /\ UnchangedButService

\* A booked service is switched off; one that a package or cart holds is refused.
DestroyService(w) ==
    /\ ServiceExists
    /\ IF Referenced_ByBookings
       THEN Begin(w, [op |-> "switch off"])
       ELSE ~Referenced /\ Begin(w, [op |-> "delete"])
    /\ UNCHANGED <<service, seeded>> /\ UnchangedButService

SwitchOff(w) == /\ job[w].op = "switch off"
                /\ service' = IF service = Gone THEN Gone ELSE [service EXCEPT !.active = FALSE]
                /\ Done(w) /\ UNCHANGED seeded /\ UnchangedButService

\* The commit checks the foreign keys of rows that came meanwhile.
ForeignKeysHold_Unchecked == TRUE
ForeignKeysHold == ~Referenced

DeleteService(w) == /\ job[w].op = "delete"
                    /\ service' = IF ForeignKeysHold THEN Gone ELSE service
                    /\ Done(w) /\ UNCHANGED seeded /\ UnchangedButService

\* The terms of the services the command lists: base price, selling price and
\* advance of those that are discounted, and the base price of the others, whose
\* advance is 100.
DiscountedTerms ==
    {<<699, 499, 149>>, <<599, 449, 149>>, <<699, 549, 199>>,
     <<799, 599, 199>>, <<999, 799, 249>>, <<899, 699, 199>>,
     <<2499, 1999, 499>>, <<1299, 999, 249>>}
PlainPrices ==
    {299, 300, 399, 500, 599, 699, 779, 899, 999, 1049, 1199, 1399, 1449,
     1499, 1899, 2349, 2499, 2700, 2799, 3899, 4099}
SeedTerms == {[base |-> t[1], selling |-> t[2], amount |-> t[3]] : t \in DiscountedTerms}
        \cup {[base |-> p, selling |-> None, amount |-> 100] : p \in PlainPrices}

\* The command saves each with full_clean: one bad row would end it half-way.
ASSUME SeedTermsAssumption == \A s \in SeedTerms : Clean(Fixed(s))

\* seed_catalogue: prices, not terms, of a service it lists, under the row's lock;
\* price and terms of a core service that is new; a retired one is switched off.  A
\* service that was deleted is made again as another one.
SeedListed ==
    /\ slug = "listed"
    /\ \E s \in Seeds :
          IF service = None THEN service' = Fixed(s)
          ELSE Clean(Seeded(service, s)) /\ service' = Seeded(service, s)
    /\ category' = "active" /\ seeded' = TRUE

SeedCore ==
    /\ slug = "core"
    /\ service' = IF service = None THEN [Fixed(CoreSeed) EXCEPT !.value = CoreSeed.amount]
                  ELSE [service EXCEPT !.active = TRUE]
    /\ category' = "active" /\ UNCHANGED seeded

SeedRetired ==
    /\ slug = "retired" /\ ServiceExists
    /\ service' = [service EXCEPT !.active = FALSE]
    /\ category' \in {category, "inactive"} /\ UNCHANGED seeded

SeedCatalogue ==
    /\ service # Gone /\ category # Gone
    /\ requests < MaxRequests /\ requests' = requests + 1
    /\ SeedListed \/ SeedCore \/ SeedRetired
    /\ UNCHANGED <<slug, package, bookings, reviews, rowLock, job>>
-----------------------------------------------------------------------------
(* Categories *)

UnchangedButCategory == UNCHANGED <<slug, service, seeded, package, bookings, reviews, rowLock>>

CreateCategory == /\ category = None
                  /\ category' = "active"
                  /\ UNCHANGED <<job, requests>> /\ UnchangedButCategory

PatchCategory(w) == /\ CategoryExists
                    /\ \E to \in {"active", "inactive"} : Begin(w, [op |-> "category", to |-> to])
                    /\ UNCHANGED category /\ UnchangedButCategory

SaveCategory(w) == /\ job[w].op = "category"
                   /\ category' = job[w].to
                   /\ Done(w) /\ UnchangedButCategory

DestroyCategory(w) == /\ CategoryExists
                      /\ Begin(w, [op |-> "no category", delete |-> ~ServiceExists])
                      /\ UNCHANGED category /\ UnchangedButCategory

CommitCategory(w) == /\ job[w].op = "no category"
                     /\ category' = IF category = Gone THEN Gone
                                    ELSE IF ~job[w].delete THEN "inactive"
                                    ELSE IF ServiceExists THEN category ELSE Gone
                     /\ Done(w) /\ UnchangedButCategory
-----------------------------------------------------------------------------
(* Packages *)

UnchangedButPackage == UNCHANGED <<slug, service, seeded, category, bookings, reviews>>

\* None: the request does not mention the services.
Added(items) == IF items = None THEN {} ELSE items

WritePackage(w) == /\ \E items \in ItemSets \cup {None} :
                         /\ items = None => package # Gone
                         /\ "this" \in Added(items) => ServiceExists
                         /\ Begin(w, [op |-> "package", step |-> "read", items |-> items,
                                      new |-> package = Gone])
                   /\ UNCHANGED <<package, rowLock>> /\ UnchangedButPackage

\* UPDATE or INSERT of the package locks its row until the commit.
PackageFree_Always == TRUE
PackageFree == rowLock["package"] = None

SavePackage(w) ==
    /\ job[w].op = "package" /\ job[w].step = "read"
    /\ IF job[w].new /\ package # Gone
       THEN Done(w) /\ UNCHANGED rowLock
       ELSE /\ PackageFree
            /\ rowLock' = [rowLock EXCEPT !["package"] = w]
            /\ Go(w, [job[w] EXCEPT !.step = "saved"])
    /\ UNCHANGED package /\ UnchangedButPackage

ClearItems(w) ==
    /\ job[w].op = "package" /\ job[w].step = "saved"
    /\ Go(w, [op |-> "items", items |-> job[w].items,
              old |-> IF package = Gone \/ job[w].items = None THEN {} ELSE package])
    /\ UNCHANGED <<package, rowLock>> /\ UnchangedButPackage

Kept(old) == IF package = Gone THEN {} ELSE package \ old

ReplaceItems(w) ==
    /\ job[w].op = "items"
    /\ package' = IF "this" \in Added(job[w].items) /\ ~ServiceExists THEN package
                  ELSE Kept(job[w].old) \cup Added(job[w].items)
    /\ rowLock' = [rowLock EXCEPT !["package"] = None]
    /\ Done(w) /\ UnchangedButPackage

DeletePackage == /\ requests < MaxRequests /\ requests' = requests + 1
                 /\ package # Gone /\ PackageFree
                 /\ package' = Gone
                 /\ UNCHANGED <<rowLock, job>> /\ UnchangedButPackage
-----------------------------------------------------------------------------
(* Bookings and reviews *)

UnchangedCatalogue == UNCHANGED <<slug, service, seeded, category, package>>

OnOffer == ServiceExists /\ service.active /\ category = "active"

\* create_booking copies the terms it read, while they were on offer.
StartBooking(w) == /\ OnOffer
                   /\ \E b \in Bookings, quantity \in 1..2 :
                         /\ bookings[b] = None
                         /\ \A v \in Workers : job[v].op = "book" => job[v].booking # b
                         /\ Begin(w, [op |-> "book", booking |-> b, quantity |-> quantity,
                                      row |-> service])
                   /\ UNCHANGED <<bookings, reviews, rowLock>> /\ UnchangedCatalogue

Total(r, quantity) == Effective(r) * quantity + (IF FeePerUnit THEN Fee * quantity ELSE Fee)

Required(r, total) == IF r.type = "PERCENTAGE" THEN Quantized(total * r.value)
                      ELSE IF r.amount < total THEN r.amount ELSE total

\* A percentage without a value makes the request fail.
CanPrice(r) == r.type = "PERCENTAGE" => r.value # None

CommitBooking(w) ==
    /\ job[w].op = "book"
    /\ LET r == job[w].row
           total == Total(r, job[w].quantity)
       IN bookings' = IF service = Gone \/ ~CanPrice(r) THEN bookings
                      ELSE [bookings EXCEPT ![job[w].booking] =
                               [total |-> total, advance |-> Required(r, total),
                                completed |-> FALSE]]
    /\ Done(w) /\ UNCHANGED <<reviews, rowLock>> /\ UnchangedCatalogue

\* The life of a booking is modelled elsewhere.
CompleteBooking(b) == /\ bookings[b] # None /\ ~bookings[b].completed
                      /\ rowLock[b] = None
                      /\ bookings' = [bookings EXCEPT ![b].completed = TRUE]
                      /\ UNCHANGED <<reviews, rowLock, job, requests>> /\ UnchangedCatalogue

BookingFree_Always(b) == TRUE
BookingFree(b) == rowLock[b] = None

StartReview(w) == /\ \E b \in Bookings : /\ bookings[b] # None
                                         /\ Begin(w, [op |-> "review", step |-> "lock", booking |-> b])
                  /\ UNCHANGED <<bookings, reviews, rowLock>> /\ UnchangedCatalogue

Reviewable(b) == bookings[b].completed /\ reviews[b] = None

LockBooking(w) ==
    /\ job[w].op = "review" /\ job[w].step = "lock"
    /\ LET b == job[w].booking
       IN /\ BookingFree(b)
          /\ IF Reviewable(b)
             THEN /\ rowLock' = [rowLock EXCEPT ![b] = w]
                  /\ Go(w, [job[w] EXCEPT !.step = "insert"])
             ELSE Done(w) /\ UNCHANGED rowLock
    /\ UNCHANGED <<bookings, reviews>> /\ UnchangedCatalogue

InsertReview(w) ==
    /\ job[w].op = "review" /\ job[w].step = "insert"
    /\ LET b == job[w].booking
       IN /\ reviews' = IF reviews[b] = None THEN [reviews EXCEPT ![b] = "visible"] ELSE reviews
          /\ rowLock' = [rowLock EXCEPT ![b] = None]
    /\ Done(w) /\ UNCHANGED bookings /\ UnchangedCatalogue

ModerateReview(w) == /\ \E b \in Bookings, to \in {"visible", "hidden"} :
                           /\ reviews[b] # None
                           /\ Begin(w, [op |-> "moderate", booking |-> b, to |-> to])
                     /\ UNCHANGED <<bookings, reviews, rowLock>> /\ UnchangedCatalogue

SaveReview(w) == /\ job[w].op = "moderate"
                 /\ reviews' = [reviews EXCEPT ![job[w].booking] = job[w].to]
                 /\ Done(w) /\ UNCHANGED <<bookings, rowLock>> /\ UnchangedCatalogue
-----------------------------------------------------------------------------
StorefrontNext == \/ CreateCategory \/ CreateService \/ SeedCatalogue \/ DeletePackage
                  \/ \E b \in Bookings : CompleteBooking(b)
                  \/ \E w \in Workers :
                        \/ PatchService(w) \/ ReadPrevious(w) \/ SaveService(w)
                        \/ SubmitForm(w) \/ SaveForm(w)
                        \/ DestroyService(w) \/ SwitchOff(w) \/ DeleteService(w)
                        \/ PatchCategory(w) \/ SaveCategory(w) \/ DestroyCategory(w) \/ CommitCategory(w)
                        \/ WritePackage(w) \/ SavePackage(w) \/ ClearItems(w) \/ ReplaceItems(w)
                        \/ StartBooking(w) \/ CommitBooking(w)
                        \/ StartReview(w) \/ LockBooking(w) \/ InsertReview(w)
                        \/ ModerateReview(w) \/ SaveReview(w)

StorefrontSpec == StorefrontInit /\ [][StorefrontNext]_storefrontVars
-----------------------------------------------------------------------------
(* Properties *)

\* The rows hold what their columns may hold, and a service never carries an
\* advance above its price, although its columns come from different requests
\* (Service.clean).
StorefrontTypeOK == /\ service \in {None, Gone} \/ (service \in Row /\ Clean(service))
                    /\ category \in {"active", "inactive", None, Gone}
                    /\ package = Gone \/ package \subseteq UNION ItemSets
                    /\ bookings \in [Bookings -> BookingRow \cup {None}]
                    /\ reviews \in [Bookings -> {None, "visible", "hidden"}]
                    /\ rowLock \in [Bookings \cup {"package"} -> Workers \cup {None}]

\* No booking asks for an advance above its total, whatever happened to the
\* terms of its service before and while it was made (_create_booking_record).
AdvancePayable == \A b \in Bookings :
    bookings[b] # None => bookings[b].advance <= bookings[b].total

\* The amount customers see is the one the terms give, after any overlap of
\* edits, unless seed_catalogue has set prices since (_with_synced_advance,
\* save_model).
AmountMatchesTerms == (ServiceExists /\ ~seeded) =>
    service.amount = AmountOf(service, SiteValue(service))

\* What a booking or a package refers to is never removed (destroy, PROTECT).
ReferencedServiceStays == service = Gone => ~Referenced

\* The services of a package are those of one request, not a mixture of two:
\* unless a deleted package is saved again, and then it has none (_replace_items).
PackageIsOneRequest ==
    [][package' # package =>
          \/ package' \in ItemSets \cup {Gone}
          \/ package = Gone /\ package' = {}]_storefrontVars

\* A review that is about to be inserted is of a completed booking that has none
\* (create_review), so that no request meets the unique index.
ReviewIsStillDue == \A w \in Workers :
    (job[w].op = "review" /\ job[w].step = "insert") => Reviewable(job[w].booking)
=============================================================================
