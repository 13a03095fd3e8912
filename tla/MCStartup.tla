------------------------------- MODULE MCStartup -------------------------------
(***************************************************************************)
(* Settings for Startup: a complete production configuration or none, in   *)
(* the process or in `.env`, and up to two settings that deviate from it,  *)
(* each in either place.                                                   *)
(***************************************************************************)
EXTENDS Startup, TLC

Nothing == [k \in Key |-> Unset]

Production ==
    [Nothing EXCEPT !["NODE_ENV"] = "production", !["DATABASE_URL"] = "postgres://prod",
                    !["SUPABASE_URL"] = "https://prod", !["CORS_ORIGINS"] = "https://app"]

Development == [Nothing EXCEPT !["PAYMENTS_TEST_WEBHOOK_SECRET"] = "long enough"]

Bases == {[process |-> Production, file |-> Nothing], [process |-> Nothing, file |-> Production],
          [process |-> Development, file |-> Nothing]}

Places == {"process", "file"}
Deviations == UNION {{<<p, k, t>> : p \in Places, t \in Texts(k)} : k \in Key}

Deviate(s, d) == [s EXCEPT ![d[1]][d[2]] = d[3]]

Deviating == {Deviate(Deviate(s, d), e) : s \in Bases, d, e \in Deviations}
=============================================================================
