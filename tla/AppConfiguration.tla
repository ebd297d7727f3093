--------------------------- MODULE AppConfiguration ---------------------------
(***************************************************************************)
(* createAppConfiguration: what the service makes of its environment when  *)
(* it starts, and on which environments it refuses to start.  A value is   *)
(* what the code can tell of a text: how parseInt and Number read it, or   *)
(* the addresses it lists and whether URL.canParse accepts them.           *)
(***************************************************************************)
EXTENDS Integers, Sequences

CONSTANTS
    Environments,   \* what the service may be started with, by variable
    Unset,          \* the variable is not in the environment
    Numbers,        \* texts of the numeric variables
    ParseInt,       \* Number.parseInt(text, 10)
    AsNumber,       \* Number(text), where that is an integer
    Decimals,       \* texts that are decimal digits, with or without a sign
    NaN,            \* the text is not read as an integer within 2^53
    Parsable,       \* the addresses that URL.canParse accepts
    Origins,        \* those that are origins: what a browser sends as Origin
    NoConfiguration

Numeric == {"LOGIN_RATE_LIMIT_MAX", "LOGIN_RATE_LIMIT_WINDOW_SECONDS", "PORT",
            "SESSION_DURATION_HOURS"}

TextsAssumption ==
    /\ ParseInt \in [Numbers -> Int \union {NaN}]
    /\ AsNumber \in [Numbers -> Int \union {NaN}]
    /\ NaN \notin Int
    /\ \A text \in Decimals : text \in Numbers /\ ParseInt[text] = AsNumber[text]
    /\ Unset \notin Numbers /\ Unset # "postgresql:"
    /\ Origins \subseteq Parsable /\ "http://localhost:3000" \in Origins

(* Of the texts, the longer pepper is one of 32 characters or more.        *)
EnvironmentsAssumption ==
    \A e \in Environments :
        /\ \A name \in Numeric \union {"TAX_RATE_BASIS_POINTS"} : e[name] \in Numbers \union {Unset}
        /\ e["SESSION_TOKEN_PEPPER"] \in {Unset, "short", "long"}

VARIABLES
    environment,    \* process.env
    configuration,  \* AppConfigService's, once the service runs
    failed          \* the variable the error that stopped it names

vars == <<environment, configuration, failed>>
-----------------------------------------------------------------------------
Or(value, fallback) == IF value = Unset THEN fallback ELSE value

isProduction(e) == e["NODE_ENV"] = "production"

frontendOrigin(e) == Or(e["FRONTEND_ORIGIN"], {"http://localhost:3000"})

corsOrigins(e) == Or(e["CORS_ORIGINS"], frontendOrigin(e))

(* The development pepper is longer than the 32 characters asked for.      *)
sessionTokenPepper(e) == Or(e["SESSION_TOKEN_PEPPER"], "long")

databaseUrl(e) ==
    Or(e["DATABASE_URL"], IF isProduction(e) THEN "undefined" ELSE "postgresql:")

Positive(n) == n # NaN /\ n > 0

positiveInteger(value, fallback) == IF value = Unset THEN fallback ELSE ParseInt[value]

(* 100 percent, in basis points.                                           *)
FullRate == 10000

taxRateBasisPoints(value) == IF value = Unset THEN 1100 ELSE AsNumber[value]

Default ==
    [LOGIN_RATE_LIMIT_MAX |-> 5, LOGIN_RATE_LIMIT_WINDOW_SECONDS |-> 60, PORT |-> 8000,
     SESSION_DURATION_HOURS |-> 24 * 7]

(* Mutant: the tax rate is read as the other numbers are.                  *)
RateAsOthers(e) ==
    LET rate == positiveInteger(e["TAX_RATE_BASIS_POINTS"], 1100) IN
    rate # NaN /\ rate > 0 /\ rate <= FullRate

RateInRange(e) ==
    LET rate == taxRateBasisPoints(e["TAX_RATE_BASIS_POINTS"]) IN
    rate # NaN /\ rate >= 0 /\ rate <= FullRate

(* The checks, in the order the code makes them: the variable each error   *)
(* names, and whether the check passes.                                    *)
Order ==
    <<"CORS_ORIGINS", "SESSION_TOKEN_PEPPER", "FRONTEND_ORIGIN", "DATABASE_URL",
      "LOGIN_RATE_LIMIT_MAX", "LOGIN_RATE_LIMIT_WINDOW_SECONDS", "PORT",
      "SESSION_DURATION_HOURS", "TAX_RATE_BASIS_POINTS">>

AllParsable(addresses) == addresses # {} /\ addresses \subseteq Parsable

Passes(e, name) ==
    CASE name = "CORS_ORIGINS" -> AllParsable(corsOrigins(e))
      [] name = "SESSION_TOKEN_PEPPER" -> isProduction(e) => sessionTokenPepper(e) = "long"
      [] name = "FRONTEND_ORIGIN" -> frontendOrigin(e) # {} /\ frontendOrigin(e) \subseteq Parsable
      [] name = "DATABASE_URL" -> databaseUrl(e) = "postgresql:"
      [] name \in Numeric -> Positive(positiveInteger(e[name], Default[name]))
      [] name = "TAX_RATE_BASIS_POINTS" -> RateInRange(e)

Configuration(e) ==
    [corsOrigins |-> corsOrigins(e),
     loginRateLimitMax |-> positiveInteger(e["LOGIN_RATE_LIMIT_MAX"], 5),
     loginRateLimitWindowMs |->
        positiveInteger(e["LOGIN_RATE_LIMIT_WINDOW_SECONDS"], 60) * 1000,
     port |-> positiveInteger(e["PORT"], 8000),
     sessionDurationMs |-> positiveInteger(e["SESSION_DURATION_HOURS"], 168) * 60 * 60 * 1000,
     sessionTokenPepper |-> sessionTokenPepper(e),
     isProduction |-> isProduction(e),
     taxRateBasisPoints |-> taxRateBasisPoints(e["TAX_RATE_BASIS_POINTS"])]
-----------------------------------------------------------------------------
Init ==
    /\ environment \in Environments
    /\ configuration = NoConfiguration
    /\ failed = "none"

Running == configuration # NoConfiguration

(* new AppConfigService(): the first check that fails ends the process.    *)
Start ==
    /\ ~ Running /\ failed = "none"
    /\ \/ /\ \A n \in DOMAIN Order : Passes(environment, Order[n])
          /\ configuration' = Configuration(environment)
          /\ UNCHANGED failed
       \/ \E n \in DOMAIN Order :
          /\ ~ Passes(environment, Order[n])
          /\ \A m \in 1 .. n - 1 : Passes(environment, Order[m])
          /\ failed' = Order[n]
          /\ UNCHANGED configuration
    /\ UNCHANGED environment

Next == Start

Spec == Init /\ [][Next]_vars
-----------------------------------------------------------------------------
FitsTheService ==
    Running =>
        LET c == configuration IN
        /\ c.loginRateLimitMax \in Nat \ {0}
        /\ c.loginRateLimitWindowMs \in Nat /\ c.loginRateLimitWindowMs >= 1000
        /\ c.sessionDurationMs \in Nat /\ c.sessionDurationMs >= 3600000
        /\ c.port \in Nat \ {0}
        /\ c.taxRateBasisPoints \in 0 .. FullRate
        /\ c.corsOrigins # {} /\ c.corsOrigins \subseteq Parsable
        /\ c.isProduction => c.sessionTokenPepper = "long"

Wrong(e, name) ==
    CASE name \in Numeric ->
            e[name] # Unset /\ ~ (e[name] \in Decimals /\ AsNumber[e[name]] \in Nat \ {0})
      [] name = "TAX_RATE_BASIS_POINTS" ->
            e[name] # Unset /\ AsNumber[e[name]] \notin 0 .. FullRate
      [] name = "CORS_ORIGINS" ->
            \/ e[name] # Unset /\ (e[name] = {} \/ ~ e[name] \subseteq Origins)
            \/ e[name] = Unset /\ e["FRONTEND_ORIGIN"] # Unset
                /\ (e["FRONTEND_ORIGIN"] = {} \/ ~ e["FRONTEND_ORIGIN"] \subseteq Origins)
      [] name = "FRONTEND_ORIGIN" ->
            e[name] # Unset /\ (e[name] = {} \/ ~ e[name] \subseteq Origins)
      [] name = "SESSION_TOKEN_PEPPER" -> isProduction(e) /\ e[name] = "short"
      [] name = "DATABASE_URL" ->
            e[name] # "postgresql:" /\ (isProduction(e) \/ e[name] # Unset)

StoppedForCause == failed # "none" => Wrong(environment, failed)

(***************************************************************************)
(* Whatever it was started with, a service that runs was given values the  *)
(* rest of it can work with: the limiter a limit and a window of whole     *)
(* seconds that are not zero (LoginRateLimit's MaxAssumption and           *)
(* LengthAssumption), the sessions a duration (Sessions'                   *)
(* DurationAssumption), the invoices a tax rate from 0 to 100 percent      *)
(* (InvoiceTotals' RatesAssumption), the guards at least one address.  One *)
(* that refuses to start was given a value that is wrong by the meaning of *)
(* its variable, and its error names that variable (or CORS_ORIGINS for a  *)
(* FRONTEND_ORIGIN that stands in for it): what is right is never refused, *)
(* a rate of 0 percent in particular.  A limit, a time or a port is right  *)
(* when it is positive and written in decimal digits: parseInt makes 0 of  *)
(* 0x10, and the service refuses that.                                     *)
(***************************************************************************)
StartsForCause == FitsTheService /\ StoppedForCause
=============================================================================
