------------------------------ MODULE Packages ------------------------------
(***************************************************************************)
(* One delegate package, its rates and the products the store sells them   *)
(* as, under administrators who edit at the same time (iwbif/routes.py     *)
(* master_crud, package_service.py).                                       *)
(*                                                                         *)
(* A product repeats its rate's price, and whether package and rate are    *)
(* active; the copies are made by every handler that writes a package or a *)
(* rate.  A handler locks the row it is named after, reads the others      *)
(* unlocked, and writes the columns that differ from what it has read.     *)
(* The package's own amount, names, and the facilities, which stand alone, *)
(* are left out.                                                           *)
(***************************************************************************)
EXTENDS Naturals, FiniteSets

CONSTANTS Rates,    \* rates of the package, by occupancy
          RateForms,\* what administrators enter for a rate
          Admins    \* requests of administrators

\* PackageRateWrite: a default rate is active.
RateForm == {entry \in [default : BOOLEAN, active : BOOLEAN, price : Nat \ {0}] :
               entry.default => entry.active}

ASSUME RateFormsAreValid == \A entry \in RateForms : entry \in RateForm

VARIABLES onSale,   \* delegate_packages.is_active
          rate,     \* delegate_package_rates
          sold,     \* the products of the rates
          desk,     \* requests: their step and what they have read
          met       \* kinds of requests that were under way together
packageVars == <<onSale, rate, sold, desk, met>>

NoRate == [default |-> FALSE, active |-> FALSE, price |-> 0]
NoProduct == [active |-> FALSE, price |-> 0]
DeskIdle == [step |-> "idle"]

Existing == {r \in Rates : rate[r] # NoRate}
Defaults == {r \in Rates : rate[r].default}
OnPackage == {a \in Admins : desk[a].step \in {"package", "package read"}}
OnRates == {a \in Admins : desk[a].step \in {"rate", "rate read"}}

\* Rates whose rows a request has locked: its own, and those it unsets.
Held(a) ==
  IF a \notin OnRates THEN {}
  ELSE (IF desk[a].insert THEN {} ELSE {desk[a].r})
       \cup (IF desk[a].step = "rate read" THEN desk[a].unset ELSE {})
HeldByOthers(a) == UNION {Held(b) : b \in Admins \ {a}}

\* Another request has inserted the rate and not committed it.
BeingInserted(a, r) ==
  \E b \in OnRates \ {a} : desk[b].step = "rate read" /\ desk[b].insert /\ desk[b].r = r

DeskStart(a, state) ==
  /\ desk[a] = DeskIdle
  /\ desk' = [desk EXCEPT ![a] = state]
  /\ met' = met \cup (IF OnPackage # {} THEN {"package"} ELSE {})
                \cup (IF OnRates # {} THEN {IF state.step = "rate" THEN "rate" ELSE "package"} ELSE {})
  /\ UNCHANGED <<onSale, rate, sold>>

-----------------------------------------------------------------------------
(***************************************************************************)
(* Products                                                                *)
(***************************************************************************)
\* A slip: the product follows its rate alone.
WantedByRate(sale, row) == [active |-> row.active, price |-> row.price]

\* _sync_product
Wanted(sale, row) == [active |-> sale /\ row.active, price |-> row.price]

\* The columns that differ from what was read; a price of 0 is not written.
ProductWritten(now, seen, want) ==
  [active |-> IF want.active = seen.active THEN now.active ELSE want.active,
   price  |-> IF want.price \in {seen.price, 0} THEN now.price ELSE want.price]

\* The rates a write of row to r takes the default from.
Unset(r, row) == IF row.default THEN Defaults \ {r} ELSE {}

-----------------------------------------------------------------------------
(***************************************************************************)
(* Rates: the row is locked, and what the decision needs is read; the      *)
(* changed rows are locked and the product is read; all is committed.      *)
(***************************************************************************)
\* The first rate, when active, is the default.
CreateRate(a, r, row) ==
  /\ r \notin Existing
  /\ LET new == IF Existing = {} /\ row.active THEN [row EXCEPT !.default = TRUE] ELSE row
     IN DeskStart(a, [step |-> "rate", r |-> r, insert |-> TRUE, row |-> new,
                  want |-> Wanted(onSale, new), unset |-> Unset(r, new)])

UpdateRate(a, r, row) ==
  /\ r \in Existing \ HeldByOthers(a)
  /\ rate[r].default /\ ~row.default => \E n \in Defaults \ {r} : rate[n].active
  /\ DeskStart(a, [step |-> "rate", r |-> r, insert |-> FALSE, row |-> row,
               want |-> Wanted(onSale, row), unset |-> Unset(r, row)])

DisableRate(a, r) ==
  /\ r \in Existing \ HeldByOthers(a)
  /\ ~rate[r].default
  /\ DeskStart(a, [step |-> "rate", r |-> r, insert |-> FALSE,
               row |-> [rate[r] EXCEPT !.active = FALSE], want |-> NoProduct, unset |-> {}])

RateFlush(a) ==
  /\ desk[a].step = "rate"
  /\ desk[a].unset \cap HeldByOthers(a) = {}
  /\ desk[a].insert => desk[a].r \notin Existing /\ ~BeingInserted(a, desk[a].r)
  /\ desk' = [desk EXCEPT ![a] = [step |-> "rate read", r |-> @.r, insert |-> @.insert, row |-> @.row,
                                  want |-> @.want, unset |-> @.unset, seen |-> sold[@.r]]]
  /\ UNCHANGED <<onSale, rate, sold, met>>

\* The columns of other rates are not touched, except that they are no default.
RateCommit(a) ==
  /\ desk[a].step = "rate read"
  /\ LET r == desk[a].r
     IN /\ rate' = [n \in Rates |-> IF n = r THEN desk[a].row
                                    ELSE IF n \in desk[a].unset THEN [rate[n] EXCEPT !.default = FALSE]
                                    ELSE rate[n]]
        /\ sold' = [sold EXCEPT ![r] = ProductWritten(@, desk[a].seen, desk[a].want)]
  /\ desk' = [desk EXCEPT ![a] = DeskIdle]
  /\ UNCHANGED <<onSale, met>>

-----------------------------------------------------------------------------
(***************************************************************************)
(* The package: its row is locked and the rates are read; then their       *)
(* products; all is committed.  Deleting a package deactivates it.         *)
(***************************************************************************)
UpdatePackage(a, sale) ==
  /\ OnPackage = {}
  /\ DeskStart(a, [step |-> "package", sale |-> sale, rows |-> rate])

PackageRead(a) ==
  /\ desk[a].step = "package"
  /\ desk' = [desk EXCEPT ![a] = [step |-> "package read", sale |-> @.sale, rows |-> @.rows,
                                  seen |-> sold]]
  /\ UNCHANGED <<onSale, rate, sold, met>>

PackageCommit(a) ==
  /\ desk[a].step = "package read"
  /\ onSale' = desk[a].sale
  /\ sold' = [r \in Rates |->
                   IF desk[a].rows[r] = NoRate THEN sold[r]
                   ELSE ProductWritten(sold[r], desk[a].seen[r],
                                Wanted(desk[a].sale, desk[a].rows[r]))]
  /\ desk' = [desk EXCEPT ![a] = DeskIdle]
  /\ UNCHANGED <<rate, met>>

\* Refused by a constraint, a deadlock's victim, or lost: all is rolled back.
LeaveDesk(a) ==
  /\ desk[a] # DeskIdle
  /\ desk' = [desk EXCEPT ![a] = DeskIdle]
  /\ UNCHANGED <<onSale, rate, sold, met>>

-----------------------------------------------------------------------------
PackageInit ==
  /\ onSale = TRUE
  /\ rate = [r \in Rates |-> NoRate]
  /\ sold = [r \in Rates |-> NoProduct]
  /\ desk = [a \in Admins |-> DeskIdle]
  /\ met = {}

PackageNext ==
  \E a \in Admins :
    \/ \E r \in Rates, row \in RateForms : CreateRate(a, r, row) \/ UpdateRate(a, r, row)
    \/ \E r \in Rates : DisableRate(a, r)
    \/ \E sale \in BOOLEAN : UpdatePackage(a, sale)
    \/ RateFlush(a) \/ RateCommit(a) \/ PackageRead(a) \/ PackageCommit(a) \/ LeaveDesk(a)

PackageSpec == PackageInit /\ [][PackageNext]_packageVars

-----------------------------------------------------------------------------
(***************************************************************************)
(* Claims                                                                  *)
(***************************************************************************)
\* The rates a visitor is offered.
Catalogue == {r \in Existing : onSale /\ rate[r].active}

\* What the catalogue offers is what the store sells: the product of an offered
\* rate is for sale at the rate's price and no other product is.  It takes an
\* edit of the package while a rate is edited to break this.  A package has no
\* two default rates unless two rates were edited at once; a default is active
\* whatever is edited.
CatalogueNeedsOverlap ==
  /\ "package" \notin met =>
       \A r \in Existing : sold[r] = [active |-> r \in Catalogue, price |-> rate[r].price]
  /\ "rate" \notin met => Cardinality(Defaults) <= 1
  /\ \A r \in Defaults : rate[r].active
=============================================================================
