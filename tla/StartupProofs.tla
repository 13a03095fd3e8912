------------------------------ MODULE StartupProofs ------------------------------
(***************************************************************************)
(* The properties of Startup for EVERY pair of settings: where TLC's       *)
(* settings stray from a complete configuration in two places, these are   *)
(* all the texts of all the keys, in the process and in `.env`.            *)
(*                                                                         *)
(* The invariant says what each step has established and no later step     *)
(* takes back (Progress).  The rest is one lemma per namespace: what it    *)
(* serves keeps what the schema and the gate demand.                       *)
(***************************************************************************)
EXTENDS Startup, TLAPS

-----------------------------------------------------------------------------
(***************************************************************************)
(* What the steps establish.                                               *)
(***************************************************************************)
MergedSettings == Merged(given.process, given.file)

\* The environment once `.env` is assigned.
AssignedEnv == [k \in Key |-> Or(given.process[k], Validated(MergedSettings)[k])]

\* The policies as the settings of the process alone make them.
ProcessPolicies == Policies(given.process)

Progress ==
    /\ given \in Settings
    /\ step \in {"launched", "imported", "configured", "checked", "created", "serving",
                "failed"}
    /\ step \in {"launched", "imported"} => env = given.process
    /\ step \notin {"launched", "failed"} => policies = ProcessPolicies
    /\ step \in {"configured", "checked", "created", "serving"} =>
            env = AssignedEnv /\ ~SchemaRefuses(MergedSettings)
    /\ step \in {"checked", "created", "serving"} => ~GateRefuses
    /\ step \in {"created", "serving"} =>
            served = Configuration(env) /\ ~CannotBeBuilt(env)

LEMMA InitProgress == Init => Progress
  BY DEF Init, Progress

\* What is made of the settings and of the environment stays as they stay.
LEMMA SameSettings ==
    ASSUME UNCHANGED given
    PROVE  UNCHANGED <<MergedSettings, AssignedEnv, ProcessPolicies>>
  BY DEF MergedSettings, AssignedEnv, ProcessPolicies

LEMMA SameEnvironment ==
    ASSUME UNCHANGED env
    PROVE  /\ UNCHANGED Configuration(env)
           /\ GateRefuses' <=> GateRefuses
           /\ CannotBeBuilt(env)' <=> CannotBeBuilt(env)
  BY DEF GateRefuses

\* One step of the start after another.
LEMMA NextProgress == Progress /\ [Next]_startupVars => Progress'
  <1> SUFFICES ASSUME Progress, [Next]_startupVars
               PROVE  Progress'
    OBVIOUS
  <1> USE DEF Progress
  <1>1. CASE LoadPolicies
    <2>1. policies' = ProcessPolicies
      BY <1>1 DEF LoadPolicies, ProcessPolicies
    <2> QED
      BY <1>1, <2>1, SameSettings DEF LoadPolicies
  <1>2. CASE ConfigModuleForRoot
    <2>1. IF SchemaRefuses(MergedSettings) THEN step' = "failed"
          ELSE step' = "configured" /\ env' = AssignedEnv
      BY <1>2 DEF ConfigModuleForRoot, AssignVarsToProcess, MergedSettings, AssignedEnv
    <2> QED
      BY <1>2, <2>1, SameSettings DEF ConfigModuleForRoot
  <1>3. CASE AssertProductionConfig
    BY <1>3, SameSettings, SameEnvironment DEF AssertProductionConfig
  <1>4. CASE CreateApp
    <2>1. /\ step = "checked" /\ step' \in {"failed", "created"}
          /\ step' = "created" => served' = Configuration(env) /\ ~CannotBeBuilt(env)
      BY <1>4 DEF CreateApp, Built
    <2>2. UNCHANGED <<given, env, policies>>
      BY <1>4 DEF CreateApp
    <2> QED
      BY <2>1, <2>2, SameSettings, SameEnvironment
  <1>5. CASE Listen
    <2>1. step = "created" /\ step' \in {"failed", "serving"}
      BY <1>5 DEF Listen
    <2>2. UNCHANGED <<given, env, policies, served>>
      BY <1>5 DEF Listen
    <2> QED
      BY <2>1, <2>2, SameSettings, SameEnvironment
  <1>6. CASE UNCHANGED startupVars
    BY <1>6, SameSettings, SameEnvironment DEF startupVars
  <1> QED
    BY <1>1, <1>2, <1>3, <1>4, <1>5, <1>6 DEF Next

LEMMA AlwaysProgress == Spec => []Progress
  BY InitProgress, NextProgress, PTL DEF Spec

-----------------------------------------------------------------------------
(***************************************************************************)
(* Settings.                                                               *)
(***************************************************************************)

\* The keys the namespaces read.
LEMMA KeysRead ==
    /\ SchemaNumber = {"PORT", "DATABASE_POOL_MIN", "DATABASE_POOL_MAX",
                       "DATABASE_STATEMENT_TIMEOUT_MS", "RATE_LIMIT_LIMIT",
                       "SHUTDOWN_TIMEOUT_MS"}
    /\ SchemaNumber \subseteq NumberKey /\ "RATE_LIMIT_BOOKING" \in NumberKey
    /\ NumberKey \cup BooleanKey \cup
       {"NODE_ENV", "DATABASE_URL", "DATABASE_SSL_MODE", "SUPABASE_URL",
        "SUPABASE_JWT_ISSUER", "SUPABASE_JWKS_URL", "SUPABASE_JWT_AUDIENCE",
        "SUPABASE_JWT_ALGORITHMS", "TRUST_PROXY", "CORS_ORIGINS", "BODY_LIMIT",
        "LOG_LEVEL", "PAYMENTS_PROVIDER_MODE", "PAYMENTS_TEST_WEBHOOK_SECRET"} \subseteq Key
  <1>1. SchemaNumber = {"PORT", "DATABASE_POOL_MIN", "DATABASE_POOL_MAX",
                        "DATABASE_STATEMENT_TIMEOUT_MS", "RATE_LIMIT_LIMIT",
                        "SHUTDOWN_TIMEOUT_MS"}
    BY DEF SchemaNumber, AtLeast
  <1>2. SchemaNumber \subseteq NumberKey /\ "RATE_LIMIT_BOOKING" \in NumberKey
    BY DEF NumberKey
  <1>3. DOMAIN TextOf =
       {"NODE_ENV", "DATABASE_URL", "DATABASE_SSL_MODE", "SUPABASE_URL",
        "SUPABASE_JWT_ISSUER", "SUPABASE_JWKS_URL", "SUPABASE_JWT_AUDIENCE",
        "SUPABASE_JWT_ALGORITHMS", "TRUST_PROXY", "CORS_ORIGINS", "BODY_LIMIT",
        "LOG_LEVEL", "PAYMENTS_PROVIDER_MODE", "PAYMENTS_TEST_WEBHOOK_SECRET"}
    BY DEF TextOf
  <1> QED
    BY <1>1, <1>2, <1>3 DEF Key

\* A number is a numeral, junk, empty or not set.
LEMMA NumberTexts ==
    ASSUME NEW e, IsEnvironment(e), NEW k \in NumberKey
    PROVE  e[k] \in {Unset, Empty, "junk"} \cup Numeral
  <1>1. k \in Key /\ k \notin BooleanKey /\ k \notin DOMAIN TextOf
    BY KeysRead DEF NumberKey, BooleanKey, Key, TextOf
  <1>2. Texts(k) = {Unset, Empty} \cup Numeral \cup {"junk"}
    BY <1>1 DEF Texts
  <1> QED
    BY <1>1, <1>2 DEF IsEnvironment

\* What the schema lets through for a number it knows.
LEMMA SchemaNumbers ==
    ASSUME NEW e, IsEnvironment(e), ~SchemaRefuses(e), NEW k \in SchemaNumber
    PROVE  e[k] = Unset \/ (e[k] \in {Empty} \cup Numeral /\ Number(e[k]) >= AtLeast[k])
  <1>1. e[k] = Unset \/ (e[k] # "junk" /\ InBounds(k, Number(e[k])))
    BY DEF SchemaRefuses
  <1>2. e[k] \in {Unset, Empty, "junk"} \cup Numeral
    BY NumberTexts DEF NumberKey
  <1> QED
    BY <1>1, <1>2 DEF InBounds

\* Both sources are environments, and so is what they merge to.
LEMMA MergedTyped ==
    ASSUME Progress
    PROVE  /\ IsEnvironment(given.process) /\ IsEnvironment(given.file)
           /\ IsEnvironment(MergedSettings)
           /\ \A k \in Key : MergedSettings[k] =
                    IF given.process[k] = Unset THEN given.file[k] ELSE given.process[k]
  <1>1. IsEnvironment(given.process) /\ IsEnvironment(given.file)
    BY SettingsAreTexts DEF Progress
  <1>2. \A k \in Key : MergedSettings[k] =
                    IF given.process[k] = Unset THEN given.file[k] ELSE given.process[k]
    BY DEF MergedSettings, Merged, Or
  <1>3. DOMAIN MergedSettings = Key
    BY DEF MergedSettings, Merged
  <1> QED
    BY <1>1, <1>2, <1>3 DEF IsEnvironment

\* From the schema on: the environment is the merged settings, but for numbers that
\* `.env` sets, which are spelled anew, and for two defaults.
Configured == step \in {"configured", "checked", "created", "serving"}

LEMMA EnvOfSettings ==
    ASSUME Progress, Configured
    PROVE  /\ \A k \in Key \ (SchemaNumber \cup {"NODE_ENV"}) : env[k] = MergedSettings[k]
           /\ \A k \in SchemaNumber : env[k] =
                    IF given.process[k] # Unset THEN given.process[k]
                    ELSE IF given.file[k] # Unset THEN Canonical(given.file[k])
                    ELSE IF k = "PORT" THEN "3000" ELSE Unset
           /\ IsProduction(env) <=> MergedSettings["NODE_ENV"] = "production"
  <1>1. \A k \in Key : env[k] = IF given.process[k] = Unset
                                THEN Validated(MergedSettings)[k] ELSE given.process[k]
    BY DEF Progress, Configured, AssignedEnv, Or
  <1>2. \A k \in Key : MergedSettings[k] =
                    IF given.process[k] = Unset THEN given.file[k] ELSE given.process[k]
    BY MergedTyped
  <1>3. "NODE_ENV" \in Key /\ SchemaNumber \subseteq Key /\ "NODE_ENV" \notin SchemaNumber
        /\ "PORT" \in SchemaNumber
    BY KeysRead
  <1>4. ASSUME NEW k \in Key \ (SchemaNumber \cup {"NODE_ENV"})
        PROVE  env[k] = MergedSettings[k]
    <2>1. Validated(MergedSettings)[k] = MergedSettings[k]
      BY <1>3, <1>4 DEF Validated
    <2> QED
      BY <1>1, <1>2, <2>1
  <1>5. ASSUME NEW k \in SchemaNumber, given.process[k] = Unset
        PROVE  env[k] = IF given.file[k] # Unset THEN Canonical(given.file[k])
                        ELSE IF k = "PORT" THEN "3000" ELSE Unset
    <2>1. MergedSettings[k] = given.file[k]
      BY <1>2, <1>3, <1>5
    <2>2. Validated(MergedSettings)[k] =
              IF given.file[k] # Unset THEN Canonical(given.file[k])
              ELSE IF k = "PORT" THEN "3000" ELSE Unset
      BY <1>3, <1>5, <2>1 DEF Validated
    <2> QED
      BY <1>1, <1>3, <1>5, <2>2
  <1>6. Validated(MergedSettings)["NODE_ENV"] =
            IF MergedSettings["NODE_ENV"] = Unset THEN "development"
            ELSE MergedSettings["NODE_ENV"]
    BY <1>3 DEF Validated, Or
  <1>7. IsProduction(env) <=> MergedSettings["NODE_ENV"] = "production"
    BY <1>1, <1>2, <1>3, <1>6 DEF IsProduction, Unset
  <1> QED
    BY <1>1, <1>3, <1>4, <1>5, <1>7

-----------------------------------------------------------------------------
(***************************************************************************)
(* Numbers.                                                                *)
(***************************************************************************)

\* An empty number is nothing to Number(), and spelled "0".
LEMMA EmptyNumber ==
    ASSUME NEW text, text = Empty
    PROVE  Number(text) = 0 /\ Canonical(text) = "0"
  <1>1. Number(text) = 0
    BY DEF Number, Empty
  <1>2. Canonical(text) = "0"
    BY DEF Canonical, Empty
  <1> QED
    BY <1>1, <1>2

LEMMA ZeroRead ==
    ASSUME NEW text, text = "0", NEW fallback
    PROVE  ParseInteger(text, fallback) = 0
  BY DEF ParseInteger, ParseInt, Unset, Empty

\* A number the schema spelled anew is read as the number it was judged to be.
LEMMA CanonicalIsJudged ==
    ASSUME NEW text \in {Empty} \cup Numeral, NEW fallback
    PROVE  ParseInteger(Canonical(text), fallback) = Number(text)
  <1>1. CASE text = Empty
    BY <1>1, EmptyNumber, ZeroRead
  <1>2. CASE text = "-1"
    BY <1>2 DEF Canonical, ParseInteger, ParseInt, Number, Unset, Empty
  <1>3. CASE text = "0"
    BY <1>3 DEF Canonical, ParseInteger, ParseInt, Number, Unset, Empty
  <1>4. CASE text = "5"
    BY <1>4 DEF Canonical, ParseInteger, ParseInt, Number, Unset, Empty
  <1>5. CASE text = "3000"
    BY <1>5 DEF Canonical, ParseInteger, ParseInt, Number, Unset, Empty
  <1>6. CASE text = "3e3"
    BY <1>6 DEF Canonical, ParseInteger, ParseInt, Number, Unset, Empty
  <1> QED
    BY <1>1, <1>2, <1>3, <1>4, <1>5, <1>6 DEF Numeral

LEMMA NumeralsAreNumbers ==
    ASSUME NEW text \in Numeral
    PROVE  Number(text) \in Int
  BY DEF Numeral, Number, Empty

\* A number at least 1 by Number() is so by parseInt(), spelled anew or not.
LEMMA PositiveIsPositive ==
    ASSUME NEW text \in Numeral, Number(text) >= 1, NEW fallback
    PROVE  /\ ParseInteger(text, fallback) \in Nat \ {0}
           /\ ParseInteger(Canonical(text), fallback) \in Nat \ {0}
  <1>1. CASE text = "-1"
    BY <1>1 DEF Canonical, ParseInteger, ParseInt, Number, Unset, Empty
  <1>2. CASE text = "0"
    BY <1>2 DEF Canonical, ParseInteger, ParseInt, Number, Unset, Empty
  <1>3. CASE text = "5"
    BY <1>3 DEF Canonical, ParseInteger, ParseInt, Number, Unset, Empty
  <1>4. CASE text = "3000"
    BY <1>4 DEF Canonical, ParseInteger, ParseInt, Number, Unset, Empty
  <1>5. CASE text = "3e3"
    BY <1>5 DEF Canonical, ParseInteger, ParseInt, Number, Unset, Empty
  <1> QED
    BY <1>1, <1>2, <1>3, <1>4, <1>5 DEF Numeral

\* Numbers of `.env` are served as they were judged.
LEMMA FileNumberServed ==
    ASSUME Progress, Configured, NEW k \in SchemaNumber,
           given.process[k] = Unset, given.file[k] # Unset, NEW fallback
    PROVE  ParseInteger(env[k], fallback) = Number(given.file[k])
  <1>1. env[k] = Canonical(given.file[k])
    BY EnvOfSettings
  <1>2. MergedSettings[k] = given.file[k]
    BY MergedTyped, KeysRead
  <1>3. given.file[k] \in {Empty} \cup Numeral
    BY <1>2, MergedTyped, SchemaNumbers DEF Progress, Configured
  <1> QED
    BY <1>1, <1>3, CanonicalIsJudged

\* What the namespaces read of the numbers of an environment.
LEMMA ServedNumbers ==
    ASSUME NEW e
    PROVE  /\ Configuration(e).app.port = ParseInteger(e["PORT"], 3000)
           /\ Configuration(e).app.shutdownTimeoutMs =
                    ParseInteger(e["SHUTDOWN_TIMEOUT_MS"], 15000)
           /\ Configuration(e).database.poolMax = ParseInteger(e["DATABASE_POOL_MAX"], 10)
           /\ Configuration(e).rateLimit.limit = ParseInteger(e["RATE_LIMIT_LIMIT"], 100)
  <1>1. /\ Configuration(e).app = AppConfig(e)
        /\ Configuration(e).database = DatabaseConfig(e)
        /\ Configuration(e).rateLimit = RateLimitConfig(e)
    BY DEF Configuration
  <1>2. /\ AppConfig(e).port = ParseInteger(e["PORT"], 3000)
        /\ AppConfig(e).shutdownTimeoutMs = ParseInteger(e["SHUTDOWN_TIMEOUT_MS"], 15000)
    BY DEF AppConfig
  <1>3. DatabaseConfig(e).poolMax = ParseInteger(e["DATABASE_POOL_MAX"], 10)
    BY DEF DatabaseConfig
  <1>4. RateLimitConfig(e).limit = ParseInteger(e["RATE_LIMIT_LIMIT"], 100)
    BY DEF RateLimitConfig
  <1> QED
    BY <1>1, <1>2, <1>3, <1>4

\* A number `.env` sets is served as the number that was judged (env.validation.ts
\* against the factories of the namespaces), in every pair of settings.
THEOREM JudgedNumbersServed == Spec => []NumbersServedAsChecked
  <1>1. ASSUME Progress
        PROVE  NumbersServedAsChecked
    <2> SUFFICES ASSUME step = "serving"
                 PROVE  NumbersServedAsChecked
      BY DEF NumbersServedAsChecked
    <2>1. Configured /\ served = Configuration(env)
      BY <1>1 DEF Progress, Configured
    <2>2. {"PORT", "SHUTDOWN_TIMEOUT_MS", "DATABASE_POOL_MAX", "RATE_LIMIT_LIMIT"}
              \subseteq SchemaNumber
      BY KeysRead
    <2>3. /\ served.app.port = ParseInteger(env["PORT"], 3000)
          /\ served.app.shutdownTimeoutMs = ParseInteger(env["SHUTDOWN_TIMEOUT_MS"], 15000)
          /\ served.database.poolMax = ParseInteger(env["DATABASE_POOL_MAX"], 10)
          /\ served.rateLimit.limit = ParseInteger(env["RATE_LIMIT_LIMIT"], 100)
      BY <2>1, ServedNumbers
    <2>4. ASSUME NEW k \in SchemaNumber, NEW fallback,
                 given.process[k] = Unset, given.file[k] # Unset
          PROVE  ParseInteger(env[k], fallback) = Number(given.file[k])
      BY <1>1, <2>1, <2>4, FileNumberServed
    <2>5. /\ given.process["PORT"] = Unset /\ given.file["PORT"] # Unset
                => served.app.port = Number(given.file["PORT"])
          /\ given.process["SHUTDOWN_TIMEOUT_MS"] = Unset
             /\ given.file["SHUTDOWN_TIMEOUT_MS"] # Unset
                => served.app.shutdownTimeoutMs = Number(given.file["SHUTDOWN_TIMEOUT_MS"])
      BY <2>2, <2>3, <2>4
    <2>6. /\ given.process["DATABASE_POOL_MAX"] = Unset
             /\ given.file["DATABASE_POOL_MAX"] # Unset
                => served.database.poolMax = Number(given.file["DATABASE_POOL_MAX"])
          /\ given.process["RATE_LIMIT_LIMIT"] = Unset
             /\ given.file["RATE_LIMIT_LIMIT"] # Unset
                => served.rateLimit.limit = Number(given.file["RATE_LIMIT_LIMIT"])
      BY <2>2, <2>3, <2>4
    <2> QED
      BY <2>5, <2>6 DEF NumbersServedAsChecked
  <1> QED
    BY <1>1, AlwaysProgress, PTL

-----------------------------------------------------------------------------
(***************************************************************************)
(* One server per setting.                                                 *)
(***************************************************************************)

LEMMA SameDatabase ==
    ASSUME NEW d, NEW e, IsProduction(d) = IsProduction(e),
           d["DATABASE_URL"] = e["DATABASE_URL"],
           d["DATABASE_POOL_MIN"] = e["DATABASE_POOL_MIN"],
           d["DATABASE_POOL_MAX"] = e["DATABASE_POOL_MAX"],
           d["DATABASE_STATEMENT_TIMEOUT_MS"] = e["DATABASE_STATEMENT_TIMEOUT_MS"],
           d["DATABASE_SSL_MODE"] = e["DATABASE_SSL_MODE"],
           d["DATABASE_LOG_QUERIES"] = e["DATABASE_LOG_QUERIES"]
    PROVE  DatabaseConfig(d) = DatabaseConfig(e)
  <1> DEFINE With(x, flag) ==
        [url |-> Or(x.DATABASE_URL, IF IsProduction(x) THEN Empty ELSE "postgres://local"),
         poolMin |-> ParseInteger(x.DATABASE_POOL_MIN, 0),
         poolMax |-> ParseInteger(x.DATABASE_POOL_MAX, 10),
         statementTimeoutMs |-> ParseInteger(x.DATABASE_STATEMENT_TIMEOUT_MS, 30000),
         sslMode |-> Or(x.DATABASE_SSL_MODE, IF IsProduction(x) THEN "require" ELSE "disable"),
         logQueries |-> flag]
  <1>1. \A flag : With(d, flag) = With(e, flag)
    OBVIOUS
  <1>2. \A x : DatabaseConfig(x) = With(x, ParseBoolean(x.DATABASE_LOG_QUERIES, FALSE))
    BY DEF DatabaseConfig
  <1> HIDE DEF With
  <1>3. With(d, ParseBoolean(d.DATABASE_LOG_QUERIES, FALSE)) =
        With(e, ParseBoolean(e.DATABASE_LOG_QUERIES, FALSE))
    BY <1>1
  <1> QED
    BY <1>2, <1>3, Zenon

LEMMA SameCors ==
    ASSUME NEW d, NEW e, IsProduction(d) = IsProduction(e),
           d["CORS_ORIGINS"] = e["CORS_ORIGINS"],
           d["CORS_CREDENTIALS"] = e["CORS_CREDENTIALS"]
    PROVE  CorsOptions(d) = CorsOptions(e)
  BY DEF CorsOptions

\* Two environments that differ in NODE_ENV, without differing in being production, and
\* in how they write one port, configure one server.
LEMMA SameConfiguration ==
    ASSUME NEW d, NEW e, \A k \in Key \ {"NODE_ENV", "PORT"} : d[k] = e[k],
           IsProduction(d) = IsProduction(e),
           ParseInteger(d["PORT"], 3000) = ParseInteger(e["PORT"], 3000)
    PROVE  Configuration(d) = Configuration(e)
  <1>1. AppConfig(d) = AppConfig(e)
    <2>1. d["BODY_LIMIT"] = e["BODY_LIMIT"] /\ d["TRUST_PROXY"] = e["TRUST_PROXY"]
          /\ d["SHUTDOWN_TIMEOUT_MS"] = e["SHUTDOWN_TIMEOUT_MS"]
      BY KeysRead
    <2> QED
      BY <2>1 DEF AppConfig
  <1>2. AuthConfig(d) = AuthConfig(e)
    <2>1. /\ d["SUPABASE_URL"] = e["SUPABASE_URL"]
          /\ d["SUPABASE_JWT_ISSUER"] = e["SUPABASE_JWT_ISSUER"]
          /\ d["SUPABASE_JWKS_URL"] = e["SUPABASE_JWKS_URL"]
          /\ d["SUPABASE_JWT_AUDIENCE"] = e["SUPABASE_JWT_AUDIENCE"]
          /\ d["SUPABASE_JWT_ALGORITHMS"] = e["SUPABASE_JWT_ALGORITHMS"]
      BY KeysRead
    <2> QED
      BY <2>1 DEF AuthConfig, SupabaseUrl
  <1>3. DatabaseConfig(d) = DatabaseConfig(e)
    <2>1. /\ d["DATABASE_URL"] = e["DATABASE_URL"]
          /\ d["DATABASE_POOL_MIN"] = e["DATABASE_POOL_MIN"]
          /\ d["DATABASE_POOL_MAX"] = e["DATABASE_POOL_MAX"]
          /\ d["DATABASE_STATEMENT_TIMEOUT_MS"] = e["DATABASE_STATEMENT_TIMEOUT_MS"]
          /\ d["DATABASE_SSL_MODE"] = e["DATABASE_SSL_MODE"]
      BY KeysRead
    <2>2. d["DATABASE_LOG_QUERIES"] = e["DATABASE_LOG_QUERIES"]
      BY KeysRead DEF BooleanKey
    <2> QED
      BY <2>1, <2>2, SameDatabase
  <1>4. CorsOptions(d) = CorsOptions(e) /\ SwaggerConfig(d) = SwaggerConfig(e)
    <2>1. d["CORS_ORIGINS"] = e["CORS_ORIGINS"]
      BY KeysRead
    <2>2. /\ d["CORS_CREDENTIALS"] = e["CORS_CREDENTIALS"]
          /\ d["SWAGGER_ENABLED"] = e["SWAGGER_ENABLED"]
      BY KeysRead DEF BooleanKey
    <2>3. CorsOptions(d) = CorsOptions(e)
      BY <2>1, <2>2, SameCors
    <2>4. SwaggerConfig(d) = SwaggerConfig(e)
      BY <2>2 DEF SwaggerConfig
    <2> QED
      BY <2>3, <2>4
  <1>5. LoggingConfig(d) = LoggingConfig(e)
    <2>1. d["LOG_LEVEL"] = e["LOG_LEVEL"] /\ d["LOG_PRETTY"] = e["LOG_PRETTY"]
      BY KeysRead DEF BooleanKey
    <2> QED
      BY <2>1 DEF LoggingConfig
  <1>6. RateLimitConfig(d) = RateLimitConfig(e)
    <2>1. d["RATE_LIMIT_LIMIT"] = e["RATE_LIMIT_LIMIT"]
      BY KeysRead
    <2> QED
      BY <2>1 DEF RateLimitConfig
  <1>7. PaymentsProviderMode(d) = PaymentsProviderMode(e)
    <2>1. d["PAYMENTS_PROVIDER_MODE"] = e["PAYMENTS_PROVIDER_MODE"]
      BY KeysRead
    <2> QED
      BY <2>1 DEF PaymentsProviderMode
  <1> QED
    BY <1>1, <1>2, <1>3, <1>4, <1>5, <1>6, <1>7 DEF Configuration

\* A plain number is spelled anew as it was.
LEMMA PlainIsCanonical ==
    ASSUME NEW text, text # Empty, text # "3e3"
    PROVE  Canonical(text) = text
  BY DEF Canonical

LEMMA DefaultPort == ParseInteger("3000", 3000) = 3000 /\ ParseInteger(Unset, 3000) = 3000
  <1>1. ASSUME NEW text, text = "3000"
        PROVE  ParseInteger(text, 3000) = 3000
    BY <1>1 DEF ParseInteger, ParseInt, Unset, Empty
  <1>2. ParseInteger(Unset, 3000) = 3000
    BY DEF ParseInteger
  <1> QED
    BY <1>1, <1>2

\* The server is one whether a setting is written in the process or in `.env`
\* (ConfigModule.forRoot between the imports and the factories): with every number of
\* `.env` written plainly, what the namespaces serve is read off the merged settings, and
\* so are the limits of the routes (rate-limit.policies.ts) unless `.env` alone has one.
THEOREM SameServerEitherWay == Spec => []OneServerPerSetting
  <1>1. ASSUME Progress, step \in {"created", "serving"}, Plain(given.file)
        PROVE  served = Configuration(MergedSettings)
    <2>1. Configured /\ served = Configuration(env)
      BY <1>1 DEF Progress, Configured
    <2>2. /\ \A k \in Key \ (SchemaNumber \cup {"NODE_ENV"}) : env[k] = MergedSettings[k]
          /\ \A k \in SchemaNumber : env[k] =
                    IF given.process[k] # Unset THEN given.process[k]
                    ELSE IF given.file[k] # Unset THEN Canonical(given.file[k])
                    ELSE IF k = "PORT" THEN "3000" ELSE Unset
          /\ IsProduction(env) = IsProduction(MergedSettings)
      BY <1>1, <2>1, EnvOfSettings DEF IsProduction
    <2>3. \A k \in Key : MergedSettings[k] =
                IF given.process[k] = Unset THEN given.file[k] ELSE given.process[k]
      BY <1>1, MergedTyped
    <2>4. ASSUME NEW k \in SchemaNumber
          PROVE  \/ env[k] = MergedSettings[k]
                 \/ k = "PORT" /\ env[k] = "3000" /\ MergedSettings[k] = Unset
      <3>1. given.file[k] # Unset => Canonical(given.file[k]) = given.file[k]
        BY <1>1, PlainIsCanonical DEF Plain
      <3>2. k \in Key
        BY KeysRead
      <3> QED
        BY <2>2, <2>3, <3>1, <3>2
    <2>5. ParseInteger(env["PORT"], 3000) = ParseInteger(MergedSettings["PORT"], 3000)
      BY <2>4, KeysRead, DefaultPort
    <2>6. \A k \in Key \ {"NODE_ENV", "PORT"} : env[k] = MergedSettings[k]
      BY <2>2, <2>4
    <2> QED
      BY <2>1, <2>2, <2>5, <2>6, SameConfiguration
  <1>2. ASSUME Progress, step \in {"created", "serving"}, ~LateLimit
        PROVE  policies = Policies(MergedSettings)
    <2>1. policies = Policies(given.process)
      BY <1>2 DEF Progress, ProcessPolicies
    <2>2. ASSUME NEW k \in {"RATE_LIMIT_LIMIT", "RATE_LIMIT_BOOKING"}
          PROVE  MergedSettings[k] = given.process[k]
      <3>1. k \in Key
        BY KeysRead
      <3>2. given.process[k] = Unset => given.file[k] = Unset
        BY <1>2 DEF LateLimit
      <3> QED
        BY <1>2, <3>1, <3>2, MergedTyped
    <2>3. Policies(MergedSettings) = Policies(given.process)
      BY <2>2 DEF Policies, LimitFor
    <2> QED
      BY <2>1, <2>3
  <1>3. Progress => OneServerPerSetting
    BY <1>1, <1>2 DEF OneServerPerSetting, MergedSettings
  <1> QED
    BY <1>3, AlwaysProgress, PTL

\* A category without a limit of its own gets the global one (rate-limit.policies.ts
\* against rate-limit.config.ts), unless only `.env` sets that.
THEOREM CategoriesShareTheLimit == Spec => []PoliciesShareTheLimit
  <1>1. ASSUME Progress
        PROVE  PoliciesShareTheLimit
    <2> DEFINE own == given.process["RATE_LIMIT_BOOKING"]
               global == given.process["RATE_LIMIT_LIMIT"]
    <2> SUFFICES ASSUME step = "serving", own \in {Unset, Empty},
                        global # Unset \/ given.file["RATE_LIMIT_LIMIT"] = Unset
                 PROVE  policies.booking = served.rateLimit.limit
      BY DEF PoliciesShareTheLimit
    <2>1. Configured /\ served = Configuration(env) /\ policies = ProcessPolicies
      BY <1>1 DEF Progress, Configured
    <2>2. policies.booking = ParseInteger(own, ParseInteger(global, 100))
      BY <2>1 DEF ProcessPolicies, Policies, LimitFor
    <2>3. policies.booking = ParseInteger(global, 100)
      BY <2>2 DEF ParseInteger
    <2>4. env["RATE_LIMIT_LIMIT"] = global
      BY <1>1, <2>1, EnvOfSettings, KeysRead
    <2>5. served.rateLimit.limit = ParseInteger(env["RATE_LIMIT_LIMIT"], 100)
      BY <2>1, ServedNumbers
    <2> QED
      BY <2>3, <2>4, <2>5
  <1> QED
    BY <1>1, AlwaysProgress, PTL

-----------------------------------------------------------------------------
(***************************************************************************)
(* What the gate lets through, one namespace after another.                *)
(***************************************************************************)
Passed(e) == IsProduction(e) /\ ~CollectProductionConfigViolations(e)

LEMMA DatabaseIsSafe ==
    ASSUME NEW e, Passed(e)
    PROVE  /\ DatabaseConfig(e).url \in Postgres \ LocalHost
           /\ DatabaseConfig(e).sslMode # "disable"
           /\ ~DatabaseConfig(e).logQueries
  <1>1. /\ e.DATABASE_URL \in Postgres \ LocalHost
        /\ e.DATABASE_SSL_MODE # "disable"
        /\ e.DATABASE_LOG_QUERIES # "true"
    BY DEF Passed, CollectProductionConfigViolations, DatabaseViolation
  <1>2. DatabaseConfig(e).url = e.DATABASE_URL
    <2>1. e.DATABASE_URL # Unset
      BY <1>1 DEF Postgres, Unset
    <2> QED
      BY <2>1 DEF DatabaseConfig, Or
  <1>3. DatabaseConfig(e).sslMode # "disable"
    <2>1. DatabaseConfig(e).sslMode =
              Or(e.DATABASE_SSL_MODE, IF IsProduction(e) THEN "require" ELSE "disable")
      BY DEF DatabaseConfig
    <2> QED
      BY <1>1, <2>1 DEF Or, Passed
  <1>4. ~DatabaseConfig(e).logQueries
    <2>1. DatabaseConfig(e).logQueries = ParseBoolean(e.DATABASE_LOG_QUERIES, FALSE)
      BY DEF DatabaseConfig
    <2> QED
      BY <1>1, <2>1 DEF ParseBoolean
  <1> QED
    BY <1>1, <1>2, <1>3, <1>4

\* A key set that can be built is the one the gate read; an issuer is, unless it is empty.
LEMMA AuthIsSafe ==
    ASSUME NEW e, Passed(e), ~CannotBeBuilt(e)
    PROVE  /\ SafeUrl(AuthConfig(e).jwksUrl)
           /\ e.SUPABASE_JWT_ISSUER # Empty => SafeUrl(AuthConfig(e).issuer)
           /\ AuthConfig(e).audience # Empty
           /\ AuthConfig(e).algorithms # "HS256"
  <1>1. /\ SafeUrl(ResolvedIssuer(e)) /\ SafeUrl(ResolvedJwksUrl(e))
        /\ e.SUPABASE_JWT_AUDIENCE # Empty /\ e.SUPABASE_JWT_ALGORITHMS # "HS256"
    BY DEF Passed, CollectProductionConfigViolations, AuthViolation
  <1>2. ~SafeUrl(Empty) /\ ~SafeUrl(Unset)
    BY DEF SafeUrl, Https, Empty, Unset
  <1>3. /\ AuthConfig(e).issuer = Or(e.SUPABASE_JWT_ISSUER, SupabaseUrl(e))
        /\ AuthConfig(e).jwksUrl = Or(e.SUPABASE_JWKS_URL, SupabaseUrl(e))
        /\ AuthConfig(e).audience = Or(e.SUPABASE_JWT_AUDIENCE, "authenticated")
        /\ AuthConfig(e).algorithms = OrBlank(e.SUPABASE_JWT_ALGORITHMS, "RS256")
    BY DEF AuthConfig
  <1>4. ASSUME NEW text, text # Empty,
               SafeUrl(OrBlank(text, OrBlank(e.SUPABASE_URL, Empty)))
        PROVE  SafeUrl(Or(text, SupabaseUrl(e)))
    <2>1. CASE text = Unset
      <3>1. SafeUrl(OrBlank(e.SUPABASE_URL, Empty))
        BY <1>4, <2>1 DEF OrBlank
      <3>2. e.SUPABASE_URL \notin {Unset, Empty} /\ SafeUrl(e.SUPABASE_URL)
        BY <1>2, <3>1 DEF OrBlank
      <3> QED
        BY <2>1, <3>2 DEF Or, SupabaseUrl
    <2>2. CASE text # Unset
      BY <1>4, <2>2 DEF OrBlank, Or
    <2> QED
      BY <2>1, <2>2
  <1>5. e.SUPABASE_JWKS_URL # Empty
    <2>1. AuthConfig(e).jwksUrl # Empty
      BY DEF CannotBeBuilt
    <2> QED
      BY <1>3, <2>1 DEF Or, Empty, Unset
  <1>6. SafeUrl(AuthConfig(e).jwksUrl)
    BY <1>1, <1>3, <1>4, <1>5 DEF ResolvedJwksUrl
  <1>7. e.SUPABASE_JWT_ISSUER # Empty => SafeUrl(AuthConfig(e).issuer)
    BY <1>1, <1>3, <1>4 DEF ResolvedIssuer
  <1>8. AuthConfig(e).audience # Empty /\ AuthConfig(e).algorithms # "HS256"
    BY <1>1, <1>3 DEF Or, OrBlank, Empty
  <1> QED
    BY <1>6, <1>7, <1>8

LEMMA EdgeIsSafe ==
    ASSUME NEW e, Passed(e)
    PROVE  /\ AppConfig(e).trustProxy \in {Empty, "false", "1"}
           /\ AppConfig(e).bodyLimit \in {"100kb", "1mb"}
           /\ CorsOptions(e).origin = "https://app"
           /\ LoggingConfig(e).level = "info" /\ ~LoggingConfig(e).pretty
           /\ PaymentsProviderMode(e) = "disabled"
  <1>1. /\ e.TRUST_PROXY \in {Unset, Empty, "1"} /\ e.CORS_ORIGINS = "https://app"
        /\ e.BODY_LIMIT \in {Unset, Empty, "1mb"}
        /\ e.LOG_LEVEL \in {Unset, "info"} /\ e.LOG_PRETTY # "true"
    BY DEF Passed, CollectProductionConfigViolations, EdgeViolation
  <1>2. /\ AppConfig(e).trustProxy = Or(e.TRUST_PROXY, "false")
        /\ AppConfig(e).bodyLimit = OrBlank(e.BODY_LIMIT, "100kb")
        /\ LoggingConfig(e).level =
                Or(e.LOG_LEVEL, IF IsProduction(e) THEN "info" ELSE "debug")
        /\ LoggingConfig(e).pretty = ParseBoolean(e.LOG_PRETTY, ~IsProduction(e))
    BY DEF AppConfig, LoggingConfig
  <1>3. CorsOptions(e).origin = "https://app"
    BY <1>1 DEF CorsOptions, Unset, Empty
  <1>4. AppConfig(e).trustProxy \in {Empty, "false", "1"}
    BY <1>1, <1>2 DEF Or
  <1>5. AppConfig(e).bodyLimit \in {"100kb", "1mb"}
    BY <1>1, <1>2 DEF OrBlank
  <1>6. LoggingConfig(e).level = "info" /\ ~LoggingConfig(e).pretty
    BY <1>1, <1>2 DEF ParseBoolean, Or, Passed
  <1>7. PaymentsProviderMode(e) = "disabled"
    BY DEF PaymentsProviderMode, Passed
  <1> QED
    BY <1>3, <1>4, <1>5, <1>6, <1>7

\* The limits are judged where they were written, and read there once and in
\* process.env once: neither reading makes a positive number less than one.
LEMMA LimitsArePositive ==
    ASSUME Progress, Configured, Passed(env)
    PROVE  /\ RateLimitConfig(env).limit > 0
           /\ ProcessPolicies.booking > 0
  <1> DEFINE global == given.process["RATE_LIMIT_LIMIT"]
             own == given.process["RATE_LIMIT_BOOKING"]
             merged == MergedSettings["RATE_LIMIT_LIMIT"]
  <1>1. /\ merged = IF global = Unset THEN given.file["RATE_LIMIT_LIMIT"] ELSE global
        /\ MergedSettings["RATE_LIMIT_BOOKING"] =
                IF own = Unset THEN given.file["RATE_LIMIT_BOOKING"] ELSE own
    BY MergedTyped, KeysRead
  <1>2. merged = Unset \/ (merged \in Numeral /\ Number(merged) >= 1)
    <2>1. ~SchemaRefuses(MergedSettings)
      BY DEF Progress, Configured
    <2>2. merged = Unset \/ (merged \in {Empty} \cup Numeral /\ Number(merged) >= 1)
      <3>1. "RATE_LIMIT_LIMIT" \in SchemaNumber /\ AtLeast["RATE_LIMIT_LIMIT"] = 1
        BY KeysRead DEF AtLeast
      <3> QED
        BY <2>1, <3>1, MergedTyped, SchemaNumbers
    <2>3. merged = Empty => Number(merged) = 0
      BY EmptyNumber
    <2> QED
      BY <2>2, <2>3
  <1>3. env["RATE_LIMIT_LIMIT"] \in {merged, Canonical(merged)}
        /\ (merged = Unset => env["RATE_LIMIT_LIMIT"] = Unset)
    BY <1>1, EnvOfSettings, KeysRead
  <1>4. RateLimitConfig(env).limit = ParseInteger(env["RATE_LIMIT_LIMIT"], 100)
    BY DEF RateLimitConfig
  <1>5. ParseInteger(Unset, 100) = 100
    BY DEF ParseInteger
  <1>6. RateLimitConfig(env).limit > 0
    <2>1. CASE merged = Unset
      BY <1>3, <1>4, <1>5, <2>1
    <2>2. CASE merged \in Numeral /\ Number(merged) >= 1
      <3>1. /\ ParseInteger(merged, 100) \in Nat \ {0}
              /\ ParseInteger(Canonical(merged), 100) \in Nat \ {0}
        BY <2>2, PositiveIsPositive
      <3>2. CASE env["RATE_LIMIT_LIMIT"] = merged
        BY <1>4, <3>1, <3>2
      <3>3. CASE env["RATE_LIMIT_LIMIT"] = Canonical(merged)
        BY <1>4, <3>1, <3>3
      <3> QED
        BY <1>3, <3>2, <3>3
    <2> QED
      BY <1>2, <2>1, <2>2
  <1>7. ParseInteger(global, 100) \in Nat \ {0}
    BY <1>1, <1>2, <1>5, PositiveIsPositive
  <1>8. own \in {Unset, Empty} \/ (own \in Numeral /\ Number(own) >= 1)
    <2>1. own \in {Unset, Empty, "junk"} \cup Numeral
      BY MergedTyped, NumberTexts, KeysRead
    <2>2. env["RATE_LIMIT_BOOKING"] = MergedSettings["RATE_LIMIT_BOOKING"]
      <3>1. "RATE_LIMIT_BOOKING" \in Key \ (SchemaNumber \cup {"NODE_ENV"})
        BY KeysRead
      <3> QED
        BY <3>1, EnvOfSettings
    <2>3. ~NotInteger(env["RATE_LIMIT_BOOKING"], 1)
      BY DEF Passed, CollectProductionConfigViolations, EdgeViolation
    <2>4. own \notin {Unset, Empty} => own # "junk" /\ ~(Number(own) < 1)
      BY <1>1, <2>2, <2>3 DEF NotInteger
    <2>5. own \in Numeral => Number(own) \in Int
      BY NumeralsAreNumbers
    <2> QED
      BY <2>1, <2>4, <2>5
  <1>9. ProcessPolicies.booking = ParseInteger(own, ParseInteger(global, 100))
    BY DEF ProcessPolicies, Policies, LimitFor
  <1>10. ProcessPolicies.booking \in Nat \ {0}
    <2>1. own \in {Unset, Empty}
                => ParseInteger(own, ParseInteger(global, 100)) \in Nat \ {0}
      BY <1>7 DEF ParseInteger
    <2> QED
      BY <1>8, <1>9, <2>1, PositiveIsPositive
  <1> QED
    BY <1>6, <1>10

\* Only 3e3 is read as another number than it was judged, and as a smaller one.
LEMMA ReadNumber ==
    ASSUME NEW text \in Numeral, NEW fallback
    PROVE  /\ ParseInteger(text, fallback) \in Int
           /\ ParseInteger(text, fallback) <= Number(text)
           /\ text # "3e3" => ParseInteger(text, fallback) = Number(text)
           /\ text = "3e3" => ParseInteger(text, fallback) = 3
  <1>1. CASE text = "-1"
    BY <1>1 DEF ParseInteger, ParseInt, Number, Unset, Empty
  <1>2. CASE text = "0"
    BY <1>2 DEF ParseInteger, ParseInt, Number, Unset, Empty
  <1>3. CASE text = "5"
    BY <1>3 DEF ParseInteger, ParseInt, Number, Unset, Empty
  <1>4. CASE text = "3000"
    BY <1>4 DEF ParseInteger, ParseInt, Number, Unset, Empty
  <1>5. CASE text = "3e3"
    BY <1>5 DEF ParseInteger, ParseInt, Number, Unset, Empty
  <1> QED
    BY <1>1, <1>2, <1>3, <1>4, <1>5 DEF Numeral

\* A number of the environment is one that Number() understands, and 3e3 only where the
\* process says so.
LEMMA EnvNumbers ==
    ASSUME Progress, Configured, NEW k \in SchemaNumber
    PROVE  /\ env[k] \in {Unset, Empty} \cup Numeral
           /\ ~ReadTwice(k) => env[k] # "3e3"
  <1>1. env[k] = IF given.process[k] # Unset THEN given.process[k]
                 ELSE IF given.file[k] # Unset THEN Canonical(given.file[k])
                 ELSE IF k = "PORT" THEN "3000" ELSE Unset
    BY EnvOfSettings
  <1>2. MergedSettings[k] =
            IF given.process[k] = Unset THEN given.file[k] ELSE given.process[k]
    BY MergedTyped, KeysRead
  <1>3. MergedSettings[k] \in {Unset, Empty} \cup Numeral
    BY MergedTyped, SchemaNumbers DEF Progress, Configured
  <1>4. ASSUME NEW text \in {Empty} \cup Numeral
        PROVE  Canonical(text) \in Numeral /\ Canonical(text) # "3e3"
    <2>1. CASE text = Empty
      BY <2>1, EmptyNumber DEF Numeral
    <2>2. CASE text # Empty
      BY <2>2 DEF Canonical, Numeral
    <2> QED
      BY <2>1, <2>2
  <1>5. CASE given.process[k] # Unset
    BY <1>1, <1>2, <1>3, <1>5 DEF ReadTwice
  <1>6. CASE given.process[k] = Unset /\ given.file[k] # Unset
    BY <1>1, <1>2, <1>3, <1>4, <1>6
  <1>7. CASE given.process[k] = Unset /\ given.file[k] = Unset
    BY <1>1, <1>7 DEF Numeral, Unset
  <1> QED
    BY <1>5, <1>6, <1>7

\* A number the gate found to be at least 0 or 1 is served so, its default being so.
LEMMA AtLeastServed ==
    ASSUME NEW text \in {Unset, Empty} \cup Numeral, NEW min \in {0, 1},
           ~NotInteger(text, min), NEW fallback \in Int, fallback >= min
    PROVE  ParseInteger(text, fallback) \in Int /\ ParseInteger(text, fallback) >= min
  <1>1. CASE text \in {Unset, Empty}
    BY <1>1 DEF ParseInteger
  <1>2. CASE text \in Numeral /\ text \notin {Unset, Empty}
    <2>1. Number(text) \in Int /\ Number(text) >= min
      BY <1>2, NumeralsAreNumbers DEF NotInteger
    <2> QED
      BY <1>2, <2>1, ReadNumber
  <1> QED
    BY <1>1, <1>2

LEMMA PortIsSafe ==
    ASSUME Progress, Configured, Passed(env)
    PROVE  AppConfig(env).port \in ListenPort
  <1>1. env["PORT"] \in {Unset, Empty} \cup Numeral
    BY EnvNumbers, KeysRead
  <1>2. env["PORT"] \in {Unset, Empty} \/ Number(env["PORT"]) \in ListenPort
    BY DEF Passed, CollectProductionConfigViolations, PortViolation
  <1>3. AppConfig(env).port = ParseInteger(env["PORT"], 3000)
    BY DEF AppConfig
  <1>4. 3000 \in ListenPort /\ 3 \in ListenPort
    BY DEF ListenPort
  <1>5. env["PORT"] \in {Unset, Empty} => ParseInteger(env["PORT"], 3000) = 3000
    BY DEF ParseInteger
  <1> QED
    BY <1>1, <1>2, <1>3, <1>4, <1>5, ReadNumber

LEMMA ShutdownIsSafe ==
    ASSUME Progress, Configured, Passed(env), ~ReadTwice("SHUTDOWN_TIMEOUT_MS")
    PROVE  AppConfig(env).shutdownTimeoutMs \in ShutdownTimeout
  <1> DEFINE text == env["SHUTDOWN_TIMEOUT_MS"]
  <1>1. text \in {Unset, Empty} \cup Numeral /\ text # "3e3"
    BY EnvNumbers, KeysRead
  <1>2. text \in {Unset, Empty} \/ Number(text) \in ShutdownTimeout
    BY DEF Passed, CollectProductionConfigViolations, ShutdownViolation
  <1>3. AppConfig(env).shutdownTimeoutMs = ParseInteger(text, 15000)
    BY DEF AppConfig
  <1>4. 15000 \in ShutdownTimeout
    BY DEF ShutdownTimeout
  <1>5. text \in {Unset, Empty} => ParseInteger(text, 15000) = 15000
    BY DEF ParseInteger
  <1> QED
    BY <1>1, <1>2, <1>3, <1>4, <1>5, ReadNumber

\* The sizes of the pool: a minimum is never served above what it was judged as, so that
\* only the maximum can spoil the order of the two.
LEMMA PoolIsSafe ==
    ASSUME Progress, Configured, Passed(env)
    PROVE  /\ DatabaseConfig(env).poolMin >= 0 /\ DatabaseConfig(env).poolMax >= 1
           /\ DatabaseConfig(env).statementTimeoutMs >= 1
           /\ env.DATABASE_POOL_MAX \notin {Unset, Empty} /\ ~ReadTwice("DATABASE_POOL_MAX")
                => DatabaseConfig(env).poolMin <= DatabaseConfig(env).poolMax
  <1> DEFINE min == env["DATABASE_POOL_MIN"]
             max == env["DATABASE_POOL_MAX"]
             timeout == env["DATABASE_STATEMENT_TIMEOUT_MS"]
  <1>1. /\ min \in {Unset, Empty} \cup Numeral
        /\ max \in {Unset, Empty} \cup Numeral
        /\ timeout \in {Unset, Empty} \cup Numeral
        /\ ~ReadTwice("DATABASE_POOL_MAX") => max # "3e3"
    BY EnvNumbers, KeysRead
  <1>2. /\ ~NotInteger(min, 0) /\ ~NotInteger(max, 1) /\ ~NotInteger(timeout, 1)
        /\ {min, max} \cap {Unset, Empty} = {} => ~(Number(min) > Number(max))
    BY DEF Passed, CollectProductionConfigViolations, DatabaseViolation
  <1>3. /\ DatabaseConfig(env).poolMin = ParseInteger(min, 0)
        /\ DatabaseConfig(env).poolMax = ParseInteger(max, 10)
        /\ DatabaseConfig(env).statementTimeoutMs = ParseInteger(timeout, 30000)
    BY DEF DatabaseConfig
  <1> HIDE DEF min, max, timeout
  <1>4. /\ ParseInteger(min, 0) \in Int /\ ParseInteger(min, 0) >= 0
        /\ ParseInteger(max, 10) \in Int /\ ParseInteger(max, 10) >= 1
        /\ ParseInteger(timeout, 30000) >= 1
    BY <1>1, <1>2, AtLeastServed
  <1>5. ASSUME max \notin {Unset, Empty}, max # "3e3"
        PROVE  ParseInteger(min, 0) <= ParseInteger(max, 10)
    <2>1. CASE min \in {Unset, Empty}
      <3>1. ParseInteger(min, 0) = 0
        BY <2>1 DEF ParseInteger
      <3> QED
        BY <1>4, <3>1
    <2>2. CASE min \notin {Unset, Empty}
      <3>1. min \in Numeral /\ max \in Numeral
        BY <1>1, <1>5, <2>2
      <3>2. Number(min) \in Int /\ Number(max) \in Int /\ ~(Number(min) > Number(max))
        BY <1>2, <1>5, <2>2, <3>1, NumeralsAreNumbers
      <3>3. ParseInteger(min, 0) <= Number(min) /\ ParseInteger(max, 10) = Number(max)
        BY <1>5, <3>1, ReadNumber
      <3> QED
        BY <1>4, <3>2, <3>3
    <2> QED
      BY <2>1, <2>2
  <1> QED
    BY <1>1, <1>3, <1>4, <1>5 DEF max

\* What a production server serves keeps every rule of the gate
\* (production-config.validation.ts against the namespaces, the policies and the schema),
\* for every pair of settings, but for an empty issuer, a pool maximum or a shutdown timeout
\* spelled 3e3 in the process, and a pool minimum set without a maximum.
THEOREM ProductionIsSafe == Spec => []ServedConfigIsSafe
  <1>1. ASSUME Progress
        PROVE  ServedConfigIsSafe
    <2> SUFFICES ASSUME step = "serving", served.app.isProduction
                 PROVE  ServedConfigIsSafe
      BY DEF ServedConfigIsSafe
    <2>1. /\ Configured /\ served = Configuration(env) /\ ~CannotBeBuilt(env)
          /\ policies = ProcessPolicies /\ ~GateRefuses
      BY <1>1 DEF Progress, Configured
    <2>2. /\ served.app = AppConfig(env) /\ served.auth = AuthConfig(env)
          /\ served.database = DatabaseConfig(env) /\ served.cors = CorsOptions(env)
          /\ served.logging = LoggingConfig(env) /\ served.rateLimit = RateLimitConfig(env)
          /\ served.payments = PaymentsProviderMode(env)
      BY <2>1 DEF Configuration
    <2>3. IsProduction(env)
      BY <2>2 DEF AppConfig
    <2>4. Passed(env)
      BY <2>1, <2>3 DEF GateRefuses, Passed
    <2>5. NumbersAreSafe
      <3>1. policies.booking > 0 /\ served.rateLimit.limit > 0
        BY <1>1, <2>1, <2>2, <2>4, LimitsArePositive
      <3>2. served.app.port \in ListenPort
        BY <1>1, <2>1, <2>2, <2>4, PortIsSafe
      <3>3. ~ReadTwice("SHUTDOWN_TIMEOUT_MS")
                => served.app.shutdownTimeoutMs \in ShutdownTimeout
        BY <1>1, <2>1, <2>2, <2>4, ShutdownIsSafe
      <3>4. /\ served.database.poolMin >= 0 /\ served.database.poolMax >= 1
            /\ served.database.statementTimeoutMs >= 1
            /\ env.DATABASE_POOL_MAX \notin {Unset, Empty}
               /\ ~ReadTwice("DATABASE_POOL_MAX")
                => served.database.poolMin <= served.database.poolMax
        BY <1>1, <2>1, <2>2, <2>4, PoolIsSafe
      <3> QED
        BY <3>1, <3>2, <3>3, <3>4 DEF NumbersAreSafe
    <2>6. /\ SafeUrl(served.auth.jwksUrl)
          /\ env.SUPABASE_JWT_ISSUER # Empty => SafeUrl(served.auth.issuer)
          /\ served.auth.audience # Empty /\ served.auth.algorithms # "HS256"
      BY <2>1, <2>2, <2>4, AuthIsSafe
    <2>7. /\ served.database.url \in Postgres \ LocalHost
          /\ served.database.sslMode # "disable" /\ ~served.database.logQueries
      BY <2>2, <2>4, DatabaseIsSafe
    <2>8. /\ served.app.trustProxy \in {Empty, "false", "1"}
          /\ served.app.bodyLimit \in {"100kb", "1mb"}
          /\ served.cors.origin = "https://app"
          /\ served.logging.level = "info" /\ ~served.logging.pretty
          /\ served.payments = "disabled"
      BY <2>2, <2>4, EdgeIsSafe
    <2> QED
      BY <2>5, <2>6, <2>7, <2>8 DEF ServedConfigIsSafe
  <1> QED
    BY <1>1, AlwaysProgress, PTL
=============================================================================
