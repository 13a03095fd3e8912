-------------------------------- MODULE Startup --------------------------------
(***************************************************************************)
(* How the server comes up: the settings of the process and of `.env`, the *)
(* three places that judge them -- the schema of the environment, the      *)
(* production gate and the factories that refuse to be built -- and what   *)
(* is finally served.                                                      *)
(*                                                                         *)
(* The judges do not look at what is served: the gate reads the raw        *)
(* variables with its own defaults and parsers, the namespaces read them   *)
(* with theirs, and the rate-limit policies were read before `.env` was.   *)
(*                                                                         *)
(* A setting is a text of a small set per key, one of each kind the code   *)
(* tells apart; Unset stands for undefined and Empty for "".               *)
(* The library that merges `.env` is modelled from its use.  X_Mutant,     *)
(* placed before X, is X with a plausible slip.                            *)
(***************************************************************************)
EXTENDS Integers

CONSTANT Settings   \* the [process, file] pairs the server may be started with

VARIABLES
    step,      \* how far it came
    given,     \* the settings it was started with
    env,       \* process.env
    policies,  \* the limits rate-limit.policies.ts baked into the routes
    served     \* the configuration in force

startupVars == <<step, given, env, policies, served>>

-----------------------------------------------------------------------------
(***************************************************************************)
(* Settings.                                                               *)
(***************************************************************************)
Unset == "unset"
Empty == "empty"

\* Numerals and what Number() and parseInt() make of them.
Numeral == {"-1", "0", "5", "3000", "3e3"}
Number(text) == CASE text = "-1" -> -1 [] text \in {Empty, "0"} -> 0 [] text = "5" -> 5
                  [] text \in {"3000", "3e3"} -> 3000
ParseInt(text) == CASE text = "-1" -> -1 [] text = "0" -> 0 [] text = "5" -> 5
                    [] text = "3000" -> 3000 [] text = "3e3" -> 3

\* `${value}` of a number the schema read.
Canonical(text) == CASE text = Empty -> "0" [] text = "3e3" -> "3000" [] OTHER -> text

Https == {"https://prod", "https://local"}
Postgres == {"postgres://prod", "postgres://local"}
LocalHost == {"http://local", "https://local", "postgres://local"}
WebUrl == {"https://prod", "https://local", "http://prod", "http://local", "junk"}

\* The numeric keys of the schema with their @Min and @Max; 0 is no maximum.
AtLeast == [PORT |-> 0, DATABASE_POOL_MIN |-> 0, DATABASE_POOL_MAX |-> 1,
            DATABASE_STATEMENT_TIMEOUT_MS |-> 0, RATE_LIMIT_LIMIT |-> 1,
            SHUTDOWN_TIMEOUT_MS |-> 1000]
AtMost == [PORT |-> 65535, SHUTDOWN_TIMEOUT_MS |-> 120000]
SchemaNumber == DOMAIN AtLeast

\* Numbers, but plain strings to the schema.
NumberKey == SchemaNumber \cup {"RATE_LIMIT_BOOKING"}

BooleanKey == {"CORS_CREDENTIALS", "SWAGGER_ENABLED", "LOG_PRETTY", "DATABASE_LOG_QUERIES"}

TextOf ==
    [NODE_ENV |-> {"development", "test", "production", "staging"},
     DATABASE_URL |-> {"postgres://prod", "postgres://local", "https://prod", "junk"},
     DATABASE_SSL_MODE |-> {"disable", "require", "no-verify", "verify-full", "junk"},
     SUPABASE_URL |-> WebUrl, SUPABASE_JWT_ISSUER |-> WebUrl, SUPABASE_JWKS_URL |-> WebUrl,
     SUPABASE_JWT_AUDIENCE |-> {"authenticated"},
     SUPABASE_JWT_ALGORITHMS |-> {"RS256", "HS256"},
     TRUST_PROXY |-> {"true", "false", "1", "loopback"},
     CORS_ORIGINS |-> {"https://app", "*", "junk"},
     BODY_LIMIT |-> {"1mb", "1gb", "junk"},
     LOG_LEVEL |-> {"info", "loud"},
     PAYMENTS_PROVIDER_MODE |-> {"disabled", "test", "stripe"},
     PAYMENTS_TEST_WEBHOOK_SECRET |-> {"changeme", "short", "long enough"}]

Key == NumberKey \cup BooleanKey \cup DOMAIN TextOf

Texts(k) ==
    {Unset, Empty} \cup CASE k \in NumberKey -> Numeral \cup {"junk"}
                       [] k \in BooleanKey -> {"true", "false", "junk"}
                       [] k \in DOMAIN TextOf -> TextOf[k]

IsEnvironment(e) == DOMAIN e = Key /\ \A k \in Key : e[k] \in Texts(k)

ASSUME SettingsAreTexts ==
    \A s \in Settings : IsEnvironment(s.process) /\ IsEnvironment(s.file)

\* value ?? fallback
Or(text, fallback) == IF text = Unset THEN fallback ELSE text
\* value?.trim() || fallback
OrBlank(text, fallback) == IF text \in {Unset, Empty} THEN fallback ELSE text

-----------------------------------------------------------------------------
(***************************************************************************)
(* The schema of the environment.                                          *)
(***************************************************************************)
Merged(process, dotenv) == [k \in Key |-> Or(process[k], dotenv[k])]

InBounds(k, n) == n >= AtLeast[k] /\ (k \in DOMAIN AtMost => n <= AtMost[k])

SchemaRefuses(e) ==
    \/ e.NODE_ENV \notin {Unset, "development", "test", "production"}
    \/ e.LOG_LEVEL \notin {Unset, "info"}
    \/ e.DATABASE_SSL_MODE \notin {Unset, "disable", "require", "no-verify", "verify-full"}
    \/ e.PAYMENTS_PROVIDER_MODE \notin {Unset, "disabled", "test"}
    \/ \E k \in SchemaNumber :
          e[k] # Unset /\ (e[k] = "junk" \/ ~InBounds(k, Number(e[k])))

\* What it makes of the settings, defaults included.
Validated(e) ==
    [k \in Key |->
        CASE k = "NODE_ENV" -> Or(e[k], "development")
          [] k = "PORT" /\ e[k] = Unset -> "3000"
          [] k \in SchemaNumber /\ e[k] # Unset -> Canonical(e[k])
          [] OTHER -> e[k]]

-----------------------------------------------------------------------------
(***************************************************************************)
(* The production gate.                                                    *)
(***************************************************************************)
SafeUrl(url) == url \in Https \ LocalHost

ResolvedIssuer(e) == OrBlank(e.SUPABASE_JWT_ISSUER, OrBlank(e.SUPABASE_URL, Empty))
ResolvedJwksUrl(e) == OrBlank(e.SUPABASE_JWKS_URL, OrBlank(e.SUPABASE_URL, Empty))

\* positiveIntViolation
NotInteger(text, min) == text \notin {Unset, Empty} /\ (text = "junk" \/ Number(text) < min)

DatabaseViolation(e) ==
    \/ e.DATABASE_URL \notin Postgres \ LocalHost
    \/ e.DATABASE_SSL_MODE = "disable"
    \/ NotInteger(e.DATABASE_POOL_MIN, 0) \/ NotInteger(e.DATABASE_POOL_MAX, 1)
    \/ /\ {e.DATABASE_POOL_MIN, e.DATABASE_POOL_MAX} \cap {Unset, Empty} = {}
       /\ Number(e.DATABASE_POOL_MIN) > Number(e.DATABASE_POOL_MAX)
    \/ NotInteger(e.DATABASE_STATEMENT_TIMEOUT_MS, 1)

AuthViolation(e) ==
    \/ ~SafeUrl(ResolvedIssuer(e)) \/ ~SafeUrl(ResolvedJwksUrl(e))
    \/ e.SUPABASE_JWT_AUDIENCE = Empty \/ e.SUPABASE_JWT_ALGORITHMS = "HS256"

\* What faces the clients: proxy, origins, bodies, rates.
EdgeViolation(e) ==
    \/ e.TRUST_PROXY \notin {Unset, Empty, "1"}
    \/ e.CORS_ORIGINS # "https://app"
    \/ e.BODY_LIMIT \notin {Unset, Empty, "1mb"}
    \/ NotInteger(e.RATE_LIMIT_LIMIT, 1) \/ NotInteger(e.RATE_LIMIT_BOOKING, 1)

ListenPort == 1..65535
ShutdownTimeout == 1000..120000

NotBoolean(text) == text \notin {Unset, Empty, "true", "false"}

ShutdownViolation(e) ==
    /\ e.SHUTDOWN_TIMEOUT_MS \notin {Unset, Empty}
    /\ \/ e.SHUTDOWN_TIMEOUT_MS = "junk"
       \/ Number(e.SHUTDOWN_TIMEOUT_MS) \notin ShutdownTimeout

PortViolation(e) ==
    e.PORT \notin {Unset, Empty} /\ (e.PORT = "junk" \/ Number(e.PORT) \notin ListenPort)

CollectProductionConfigViolations(e) ==
    \/ PortViolation(e)
    \/ DatabaseViolation(e) \/ AuthViolation(e) \/ EdgeViolation(e)
    \/ e.PAYMENTS_PROVIDER_MODE \notin {Unset, Empty, "disabled"}
    \/ \E k \in BooleanKey : NotBoolean(e[k])
    \/ e.LOG_PRETTY = "true" \/ e.DATABASE_LOG_QUERIES = "true"
    \/ e.LOG_LEVEL \notin {Unset, "info"}
    \/ ShutdownViolation(e)

-----------------------------------------------------------------------------
(***************************************************************************)
(* The namespaces, as the factories read them.                             *)
(***************************************************************************)
ParseInteger(text, fallback) ==
    IF text \in {Unset, Empty, "junk"} THEN fallback ELSE ParseInt(text)

ParseBoolean(text, fallback) ==
    CASE text = "true" -> TRUE [] text = "false" -> FALSE [] OTHER -> fallback

IsProduction(e) == e.NODE_ENV = "production"

\* The body parser takes an empty limit for its default.
AppConfig(e) ==
    [isProduction |-> IsProduction(e), port |-> ParseInteger(e.PORT, 3000),
     bodyLimit |-> OrBlank(e.BODY_LIMIT, "100kb"), trustProxy |-> Or(e.TRUST_PROXY, "false"),
     shutdownTimeoutMs |-> ParseInteger(e.SHUTDOWN_TIMEOUT_MS, 15000)]

SupabaseUrl(e) == Or(e.SUPABASE_URL, IF IsProduction(e) THEN Empty ELSE "http://local")

AuthConfig(e) ==
    [issuer |-> Or(e.SUPABASE_JWT_ISSUER, SupabaseUrl(e)),
     jwksUrl |-> Or(e.SUPABASE_JWKS_URL, SupabaseUrl(e)),
     audience |-> Or(e.SUPABASE_JWT_AUDIENCE, "authenticated"),
     algorithms |-> OrBlank(e.SUPABASE_JWT_ALGORITHMS, "RS256")]

DatabaseConfig(e) ==
    [url |-> Or(e.DATABASE_URL, IF IsProduction(e) THEN Empty ELSE "postgres://local"),
     poolMin |-> ParseInteger(e.DATABASE_POOL_MIN, 0),
     poolMax |-> ParseInteger(e.DATABASE_POOL_MAX, 10),
     statementTimeoutMs |-> ParseInteger(e.DATABASE_STATEMENT_TIMEOUT_MS, 30000),
     sslMode |-> Or(e.DATABASE_SSL_MODE, IF IsProduction(e) THEN "require" ELSE "disable"),
     logQueries |-> ParseBoolean(e.DATABASE_LOG_QUERIES, FALSE)]

\* buildCorsOptions over the cors namespace.
CorsOptions(e) ==
    [origin |-> IF e.CORS_ORIGINS \notin {Unset, Empty} THEN e.CORS_ORIGINS
                ELSE IF IsProduction(e) THEN "denied" ELSE "reflected",
     credentials |-> ParseBoolean(e.CORS_CREDENTIALS, FALSE)]

LoggingConfig(e) ==
    [level |-> Or(e.LOG_LEVEL, IF IsProduction(e) THEN "info" ELSE "debug"),
     pretty |-> ParseBoolean(e.LOG_PRETTY, ~IsProduction(e))]

\* setupSwagger publishes it when enabled.
SwaggerConfig(e) == [enabled |-> ParseBoolean(e.SWAGGER_ENABLED, ~IsProduction(e))]

RateLimitConfig(e) == [limit |-> ParseInteger(e.RATE_LIMIT_LIMIT, 100)]

\* resolvePaymentsProviderMode
PaymentsProviderMode(e) ==
    IF e.PAYMENTS_PROVIDER_MODE = "disabled" \/ IsProduction(e) THEN "disabled" ELSE "test"

Configuration(e) ==
    [app |-> AppConfig(e), auth |-> AuthConfig(e), database |-> DatabaseConfig(e),
     cors |-> CorsOptions(e), logging |-> LoggingConfig(e), swagger |-> SwaggerConfig(e),
     rateLimit |-> RateLimitConfig(e), payments |-> PaymentsProviderMode(e)]

\* A factory throws: no database, no usable key set, a test provider without a secret.
CannotBeBuilt(e) ==
    \/ DatabaseConfig(e).url = Empty
    \/ AuthConfig(e).jwksUrl \in {Empty, "junk"}
    \/ PaymentsProviderMode(e) = "test" /\ e.PAYMENTS_TEST_WEBHOOK_SECRET # "long enough"

-----------------------------------------------------------------------------
(***************************************************************************)
(* The start.                                                              *)
(***************************************************************************)
Init ==
    /\ step = "launched"
    /\ given \in Settings
    /\ env = given.process
    /\ policies = <<>>
    /\ served = <<>>

\* Importing a controller evaluates the policies of its decorators.
LimitFor_Mutant(e, key) == ParseInteger(e[key], 100)

\* One category, RATE_LIMIT_BOOKING, stands for all.
LimitFor(e, key) == ParseInteger(e[key], ParseInteger(e["RATE_LIMIT_LIMIT"], 100))

Policies(e) == [booking |-> LimitFor(e, "RATE_LIMIT_BOOKING")]

LoadPolicies ==
    /\ step = "launched"
    /\ policies' = Policies(env)
    /\ step' = "imported"
    /\ UNCHANGED <<given, env, served>>

\* The merged settings instead of what the schema made of them.
AssignVarsToProcess_Mutant(merged) == [k \in Key |-> Or(env[k], merged[k])]

AssignVarsToProcess(merged) == [k \in Key |-> Or(env[k], Validated(merged)[k])]

ConfigModuleForRoot ==
    LET merged == Merged(env, given.file) IN
    /\ step = "imported"
    /\ IF SchemaRefuses(merged)
       THEN step' = "failed" /\ UNCHANGED env
       ELSE step' = "configured" /\ env' = AssignVarsToProcess(merged)
    /\ UNCHANGED <<given, policies, served>>

\* The environment as it was before `.env`.
GateRefuses_Mutant ==
    IsProduction(given.process) /\ CollectProductionConfigViolations(given.process)

GateRefuses == IsProduction(env) /\ CollectProductionConfigViolations(env)

AssertProductionConfig ==
    /\ step = "configured"
    /\ step' = IF GateRefuses THEN "failed" ELSE "checked"
    /\ UNCHANGED <<given, env, policies, served>>

\* The payment providers as a value of the module, built when it is imported.
Built_Mutant == [Configuration(env) EXCEPT !.payments = PaymentsProviderMode(given.process)]

Built == Configuration(env)

CreateApp ==
    /\ step = "checked"
    /\ IF CannotBeBuilt(env)
       THEN step' = "failed" /\ UNCHANGED served
       ELSE step' = "created" /\ served' = Built
    /\ UNCHANGED <<given, env, policies>>

\* listen refuses a port out of its range.
ListensOn(port) == port \in 0..65535

Listen ==
    /\ step = "created"
    /\ step' = IF ListensOn(served.app.port) THEN "serving" ELSE "failed"
    /\ UNCHANGED <<given, env, policies, served>>

Next ==
    LoadPolicies \/ ConfigModuleForRoot \/ AssertProductionConfig \/ CreateApp \/ Listen

Spec == Init /\ [][Next]_startupVars

-----------------------------------------------------------------------------
(***************************************************************************)
(* Properties.                                                             *)
(***************************************************************************)

\* A number of the process that parseInt, which serves it, reads as another than Number,
\* which judged it.
ReadTwice(k) == given.process[k] = "3e3"

NumbersAreSafe ==
    /\ served.app.port \in ListenPort
    /\ served.database.poolMin >= 0 /\ served.database.poolMax >= 1
    /\ served.database.statementTimeoutMs >= 1
    /\ env.DATABASE_POOL_MAX \notin {Unset, Empty} /\ ~ReadTwice("DATABASE_POOL_MAX")
            => served.database.poolMin <= served.database.poolMax
    /\ ~ReadTwice("SHUTDOWN_TIMEOUT_MS")
            => served.app.shutdownTimeoutMs \in ShutdownTimeout
    /\ policies.booking > 0 /\ served.rateLimit.limit > 0

\* What a production server serves passes the gate's rules: not the variables the gate
\* read, the values the namespaces made of them, whichever of the two sources they
\* came from.  The code keeps this but in three cases, which are excepted: an issuer set
\* to nothing; a pool maximum or a shutdown timeout that the process writes so that it is
\* judged as one number and served as another; a pool minimum without a maximum, which
\* the gate compares with nothing and the pool with its default.
ServedConfigIsSafe ==
    step = "serving" /\ served.app.isProduction =>
        /\ NumbersAreSafe
        /\ served.database.url \in Postgres \ LocalHost
        /\ served.database.sslMode # "disable"
        /\ SafeUrl(served.auth.jwksUrl)
        /\ env.SUPABASE_JWT_ISSUER # Empty => SafeUrl(served.auth.issuer)
        /\ served.auth.audience # Empty /\ served.auth.algorithms # "HS256"
        /\ served.app.trustProxy \in {Empty, "false", "1"}
        /\ served.app.bodyLimit \in {"100kb", "1mb"}
        /\ served.cors.origin = "https://app"
        /\ served.logging.level = "info" /\ ~served.logging.pretty
        /\ ~served.database.logQueries
        /\ served.payments = "disabled"

\* No number is left empty or written in a way the schema would not write it.
Plain(e) == \A k \in SchemaNumber : e[k] \notin {Empty, "3e3"}

\* A limit of the policies that only `.env` sets: it comes too late for them.
LateLimit ==
    \E k \in {"RATE_LIMIT_LIMIT", "RATE_LIMIT_BOOKING"} :
        given.process[k] = Unset /\ given.file[k] # Unset

\* It does not matter to the namespaces where a setting is written: none is read before
\* `.env` is assigned, or changed after it was judged.  The limits of the routes are read
\* before: to them it does not matter as long as none of theirs is left to `.env`.
OneServerPerSetting ==
    LET merged == Merged(given.process, given.file) IN
    step \in {"created", "serving"} /\ Plain(given.file) =>
        /\ served = Configuration(merged)
        /\ ~LateLimit => policies = Policies(merged)

\* A number `.env` sets is served as the number that was judged, however it is spelled;
\* one the process sets is read a second time, by other rules.
NumbersServedAsChecked ==
    LET FromFile(k) == given.process[k] = Unset /\ given.file[k] # Unset
        Judged(k) == Number(given.file[k]) IN
    step = "serving" =>
        /\ FromFile("PORT") => served.app.port = Judged("PORT")
        /\ FromFile("SHUTDOWN_TIMEOUT_MS") =>
                served.app.shutdownTimeoutMs = Judged("SHUTDOWN_TIMEOUT_MS")
        /\ FromFile("DATABASE_POOL_MAX") =>
                served.database.poolMax = Judged("DATABASE_POOL_MAX")
        /\ FromFile("RATE_LIMIT_LIMIT") =>
                served.rateLimit.limit = Judged("RATE_LIMIT_LIMIT")

\* A category without a limit of its own has the global one -- as long as `.env` is not
\* the one to set it, for the policies were loaded before.
PoliciesShareTheLimit ==
    /\ step = "serving"
    /\ given.process["RATE_LIMIT_BOOKING"] \in {Unset, Empty}
    /\ given.process["RATE_LIMIT_LIMIT"] # Unset \/ given.file["RATE_LIMIT_LIMIT"] = Unset
    => policies.booking = served.rateLimit.limit
=============================================================================
