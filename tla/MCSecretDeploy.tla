--------------------------- MODULE MCSecretDeploy ---------------------------
(* Three systems; of the names one is given to a service too, and one has a
   path of its own and is given to a service. *)
EXTENDS SecretDeploy, TLC

CONSTANTS a, b, c

MCSystems == {a, b, c}
MCSecrets == a :> {"pw", "db"} @@ b :> {"pw", "key"} @@ c :> {"key", "env"}
MCOwnPath == {"key", "env"}
MCInEnv == {"db", "env"}
=============================================================================
