-------------------------------- MODULE MCParts --------------------------------
(***************************************************************************)
(* ServiceParts on a small instance.                                       *)
(***************************************************************************)
EXTENDS ServiceParts

(* Free goods, line totals that fit until they are added, and rates that   *)
(* make halves of a cent.                                                  *)
MCLines == [price : {0, 1, 3, 7}, quantity : {1, 2}]
MCRates == {0, 1100, 2500, 5000, 10000}

(* Five rows, two of them created in the same millisecond.                 *)
MCRows == 1 .. 5
MCCreatedAt == <<1, 2, 2, 3, 4>>

(* Every environment in which at most two variables differ from an empty   *)
(* one, in production and in development.                                  *)
Home == "http://localhost:3000"

MCNumbers == {"", "0", "1", "3", "10000", "10001", "-1", "2.5", "5x", "word", "1e20", "0x10"}
MCParseInt == [n \in MCNumbers |->
    CASE n = "0" -> 0 [] n = "1" -> 1 [] n = "3" -> 3 [] n = "10000" -> 10000
      [] n = "10001" -> 10001 [] n = "-1" -> -1 [] n = "2.5" -> 2 [] n = "5x" -> 5
      [] n = "1e20" -> 1 [] n = "0x10" -> 0 [] OTHER -> NaN]
MCAsNumber == [n \in MCNumbers |->
    CASE n = "" -> 0 [] n = "0" -> 0 [] n = "1" -> 1 [] n = "3" -> 3
      [] n = "10000" -> 10000 [] n = "10001" -> 10001 [] n = "-1" -> -1
      [] n = "0x10" -> 16 [] OTHER -> NaN]
MCDecimals == {"0", "1", "3", "10000", "10001", "-1"}

MCOrigins == {Home, "https://shop.test"}
MCParsable == MCOrigins \union {"http://localhost:3000/"}
Listed == MCParsable \union {"word"}

Values(name) ==
    CASE name = "NODE_ENV" -> {"test"}
      [] name = "CORS_ORIGINS" -> SUBSET Listed
      [] name = "FRONTEND_ORIGIN" -> {{}} \union {{a} : a \in Listed}
      [] name = "SESSION_TOKEN_PEPPER" -> {"short", "long"}
      [] name = "DATABASE_URL" -> {"postgresql:", "mysql:", "word"}
      [] name = "TAX_RATE_BASIS_POINTS" -> MCNumbers
      [] OTHER -> MCNumbers \ {"10000", "10001"}

Names ==
    {"LOGIN_RATE_LIMIT_MAX", "LOGIN_RATE_LIMIT_WINDOW_SECONDS", "PORT", "SESSION_DURATION_HOURS",
     "NODE_ENV", "CORS_ORIGINS", "FRONTEND_ORIGIN", "SESSION_TOKEN_PEPPER", "DATABASE_URL",
     "TAX_RATE_BASIS_POINTS"}

Bases == {[n \in Names |-> Unset],
          [n \in Names |-> IF n = "NODE_ENV" THEN "production"
                           ELSE IF n = "DATABASE_URL" THEN "postgresql:" ELSE Unset]}

Changed(es, name) == es \union {[e EXCEPT ![name] = v] : e \in es, v \in Values(name)}

MCEnvironments ==
    LET one == UNION {Changed(Bases, n) : n \in Names} IN
    UNION {UNION {{[e EXCEPT ![n] = v] : e \in Changed(Bases, m), v \in Values(n)} :
                    n \in Names} : m \in Names} \union one
================================================================================
