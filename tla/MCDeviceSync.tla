---------------------------- MODULE MCDeviceSync ------------------------------
(* DeviceSync on small instances. *)
EXTENDS DeviceSync, TLC

CONSTANTS a, b, true, num, mars, quoted

MCUnquote == quoted :> mars
\* The server knows nothing, or b, declared by an earlier run.
MCLegacy == {a :> NoType @@ b :> NoType, a :> NoType @@ b :> "bool"}
\* The same for b alone.
MCLegacyB == {b :> NoType, b :> "string"}

===============================================================================
