----------------------------- MODULE ServiceParts -----------------------------
(***************************************************************************)
(* Small parts of the service that share no state, side by side: the login *)
(* limiter on its clock, the amounts of an invoice, a client that walks    *)
(* through a list (of products or of invoices), a request on its way       *)
(* through the guards, the configuration, and one product on the           *)
(* millisecond clock.  What a part does is not affected by another, so a   *)
(* behaviour is one of a single part and the others stay as they are.      *)
(***************************************************************************)
EXTENDS LimiterClock

CONSTANTS
    None,                                                   \* no value, no cookie; the
                                                            \* variables of a part at rest
    Lines, MaxLines, Rates, MaxCents,                       \* InvoiceTotals
    Rows, CreatedAt, PageSize, MaxChanges,                  \* Listing
    Requests, Tokens,                                       \* RequestPipeline
    Environments, Unset, Numbers, ParseInt, AsNumber, NaN,  \* AppConfiguration
    Decimals, Parsable, Origins,
    Editors, Times, MaxStock, Keep                          \* ProductClock

VARIABLES
    part,                                                   \* the one that moves
    input, rate, items, summed, amounts, step,              \* InvoiceTotals
    list, listed, page, next, total, shown, kept,           \* Listing
    entered, left,
    live, role, ask, at, user, reply, dead, admin,          \* RequestPipeline
    environment, configuration, failed,                     \* AppConfiguration
    stock, ledger, updatedAt, stamps, again, edit           \* ProductClock

Totals == INSTANCE InvoiceTotals

Walk == INSTANCE Listing

Pipeline == INSTANCE RequestPipeline WITH NoRow <- None

Config == INSTANCE AppConfiguration WITH NoConfiguration <- None

Shelf == INSTANCE ProductClock

ASSUME PartsAssumption ==
    /\ Totals!LinesAssumption /\ Totals!RatesAssumption
    /\ Walk!RowsAssumption /\ Walk!BoundsAssumption
    /\ Pipeline!NoRowAssumption
    /\ Config!TextsAssumption /\ Config!EnvironmentsAssumption
    /\ Shelf!ClockAssumption

totalsVars == <<input, rate, items, summed, amounts, step>>
listVars == <<list, listed, page, next, total, shown, kept, entered, left>>
pipelineVars == <<live, role, ask, at, user, reply, dead, admin>>
configVars == <<environment, configuration, failed>>
shelfVars == <<stock, ledger, updatedAt, stamps, again, edit>>

NoTotals == input = None /\ rate = None /\ items = None /\ summed = None /\ amounts = None /\ step = None
NoList ==
    /\ list = None /\ listed = None /\ page = None /\ next = None /\ total = None
    /\ shown = None /\ kept = None /\ entered = None /\ left = None
NoPipeline ==
    /\ live = None /\ role = None /\ ask = None /\ at = None
    /\ user = None /\ reply = None /\ dead = None /\ admin = None
NoConfig == environment = None /\ configuration = None /\ failed = None
NoShelf ==
    /\ stock = None /\ ledger = None /\ updatedAt = None
    /\ stamps = None /\ again = None /\ edit = None

PartsInit ==
    /\ part \in {"clock", "totals", "list", "pipeline", "config", "shelf"}
    /\ Init
    /\ IF part = "totals" THEN Totals!Init ELSE NoTotals
    /\ IF part = "list" THEN Walk!Init ELSE NoList
    /\ IF part = "pipeline" THEN Pipeline!Init ELSE NoPipeline
    /\ IF part = "config" THEN Config!Init ELSE NoConfig
    /\ IF part = "shelf" THEN Shelf!Init ELSE NoShelf

PartsNext ==
    \/ /\ part = "clock" /\ Next
       /\ UNCHANGED <<part, totalsVars, listVars, pipelineVars, configVars, shelfVars>>
    \/ /\ part = "totals" /\ Totals!Next
       /\ UNCHANGED <<part, vars, listVars, pipelineVars, configVars, shelfVars>>
    \/ /\ part = "list" /\ Walk!Next
       /\ UNCHANGED <<part, vars, totalsVars, pipelineVars, configVars, shelfVars>>
    \/ /\ part = "pipeline" /\ Pipeline!Next
       /\ UNCHANGED <<part, vars, totalsVars, listVars, configVars, shelfVars>>
    \/ /\ part = "config" /\ Config!Next
       /\ UNCHANGED <<part, vars, totalsVars, listVars, pipelineVars, shelfVars>>
    \/ /\ part = "shelf" /\ Shelf!Next
       /\ UNCHANGED <<part, vars, totalsVars, listVars, pipelineVars, configVars>>

partsVars == <<part, vars, totalsVars, listVars, pipelineVars, configVars, shelfVars>>

PartsSpec == PartsInit /\ [][PartsNext]_partsVars
-----------------------------------------------------------------------------
(* Every part's variables have their types.                                *)
PartsTypeOK ==
    /\ TypeOK
    /\ part = "totals" => Totals!TypeOK
    /\ part = "list" => Walk!TypeOK
    /\ part = "pipeline" => Pipeline!TypeOK
    /\ part = "shelf" => Shelf!TypeOK

(***************************************************************************)
(* InvoiceTotals: an invoice that is stored says exactly what is due.      *)
(***************************************************************************)
StoredExactly == part = "totals" => Totals!StoredExactly

(***************************************************************************)
(* InvoiceTotals: an invoice is refused only if what is due does not fit.  *)
(***************************************************************************)
RefusedOnlyTooLarge == part = "totals" => Totals!RefusedOnlyTooLarge

(***************************************************************************)
(* Listing: a client that walks through the pages misses no more rows than *)
(* left the list meanwhile, and is shown twice no more than came in.       *)
(***************************************************************************)
WalkAccounted == part = "list" => Walk!WalkAccounted

(***************************************************************************)
(* RequestPipeline: a handler has run only for a request entitled to it.   *)
(***************************************************************************)
HandledForCause == part = "pipeline" => Pipeline!HandledForCause

(***************************************************************************)
(* AppConfiguration: a service that runs was given values the rest of it   *)
(* can work with, and one that refuses to start was given a wrong one.     *)
(***************************************************************************)
StartsForCause == part = "config" => Config!StartsForCause

(***************************************************************************)
(* ProductClock: the ledger explains the stock unless two writes of one    *)
(* product have borne the same millisecond.                                *)
(***************************************************************************)
LedgerUnlessAgain == part = "shelf" => Shelf!LedgerUnlessAgain
=============================================================================
