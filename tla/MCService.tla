------------------------------- MODULE MCService -------------------------------
(* Small instances of Service for TLC. *)
EXTENDS Service

CONSTANTS c1, c2, r1, r2

MCContainers == {c1, c2}
MCRequests == {r1, r2}
\* What a managed PostgreSQL hands out, what the driver wants, another driver,
\* and a placeholder for a secret.
MCEnvironments == {
    [scheme |-> "postgres", params |-> {"sslmode", "channel_binding"}, secret |-> "generated"],
    [scheme |-> "postgresql+asyncpg", params |-> {}, secret |-> "generated"],
    [scheme |-> "sqlite", params |-> {}, secret |-> "generated"],
    [scheme |-> "postgresql+asyncpg", params |-> {"sslmode"}, secret |-> "changeme"]}
=============================================================================
