---------------------------- MODULE MCActivation ----------------------------
(* a, b and d have the same kernel, c has another one without modules and without
   firmware, and d has no services.  The secret pw holds the password hash of a
   user of a and c. *)
EXTENDS Activation, TLC

CONSTANTS a, b, c, d

MCSystems == {a, b, c, d}
MCDatabases == {a, b, c}
MCByName == a :> {"pw"} @@ b :> {} @@ c :> {"pw"} @@ d :> {}
MCBootedFiles == a :> 1 @@ b :> 1 @@ c :> 2 @@ d :> 1
MCModules == {a, b, d}
MCFirmware == {a, b, d}
MCVolatile == {"/run/wrappers/bin"}
MCStateDirs == a :> MCVolatile @@ b :> MCVolatile @@ c :> MCVolatile @@ d :> MCVolatile
MCWrappers == a :> {"su"} @@ b :> {"su"} @@ c :> {} @@ d :> {}
MCCommands == a :> {"sh"} @@ b :> {"sh", "vi"} @@ c :> {"sh"} @@ d :> {}
MCPasswordFrom == a :> "pw" @@ b :> None @@ c :> "pw" @@ d :> None
=============================================================================
