--------------------------- MODULE MCSecretStore ---------------------------
(* Two commands and one MCP server for TLC.  Two of the three lines of .env *)
(* name one target, and one key has a variable in the environment as well.  *)
EXTENDS SecretStore, TLC

CONSTANTS e1, e2, srv, n1, n2, n3

(* "prod_db".upper().replace('-', '_') and "PROD_DB".lower().replace('_', '-') *)
Upper == "prod-db" :> "PROD_DB" @@ "prod_db" :> "PROD_DB" @@ "replica" :> "REPLICA"
Lower == "PROD_DB" :> "prod-db" @@ "prod_db" :> "prod-db" @@ "REPLICA" :> "replica"
KeyOf == [t \in Targets |-> Upper[t]]
TargetFor == [k \in Keys |-> Lower[k]]

Line(key, value) == [key |-> key, value |-> value]
ThreeLines == <<Line("PROD_DB", "first"), Line("REPLICA", "first"), Line("prod_db", "last")>>

UnlockOld == srv :> "old"
LegacyOne == [k \in Keys |-> IF k = "REPLICA" THEN "first" ELSE None]
OneEach == e1 :> 1 @@ e2 :> 1
TwoAndOne == e1 :> 2 @@ e2 :> 1
FileSymmetry == Permutations({n1, n2, n3})
============================================================================
