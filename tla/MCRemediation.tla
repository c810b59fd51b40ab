--------------------------- MODULE MCRemediation ---------------------------
(* One server for TLC: a parameter, two schemas with tables that have      *)
(* indexes of the same names, one name in mixed case; values and           *)
(* definitions that are recorded whole, cut, changed and not at all.       *)
EXTENDS Remediation, TLC

CONSTANTS c1, c2, public, tenant, idx, Idx, narrow, control, cut, gated

PublicFirst == <<public, tenant>>
LowerCase == idx :> idx @@ Idx :> idx
ShortValues == "4MB" :> "4MB" @@ "a.." :> "a.." @@ "a, b, c" :> "a.." @@ "" :> None
ShortDefs == narrow :> narrow @@ control :> narrow @@ cut :> None @@ gated :> gated

TwoAndOne == c1 :> 2 @@ c2 :> 1
============================================================================
