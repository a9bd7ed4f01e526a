----------------------------- MODULE MCBootstrap -----------------------------
(* Configurations of Bootstrap for TLC.                                       *)
EXTENDS Bootstrap

\* README.md:212, the full enterprise configuration.
MCFull == [p \in Kernel \cup Services |->
    CASE p = "storage"          -> "postgres"
      [] p \in Kernel \ {"storage", "secret"} -> "redis"
      [] p = "identityProvider" -> "oidc"
      [] p = "policyEngine"     -> "rbac"
      [] p = "quotaManager"     -> "storage"
      [] p = "runtimeBackend"   -> "docker"
      [] OTHER                  -> "only"]

MCFullOnly == {MCFull}

\* The in-memory defaults.
MCSmall == [p \in Kernel \cup Services |->
    CASE p \in Kernel \ {"secret"} -> "memory"
      [] p \in {"identityProvider", "policyEngine", "quotaManager"} -> "null"
      [] p = "runtimeBackend" -> "docker"
      [] OTHER -> "only"]
=============================================================================
