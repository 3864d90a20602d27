------------------------------ MODULE MCBuild -------------------------------
EXTENDS Build, TLC
(* main imports util, and when it says so the generated gen, a file in a    *)
(* directory named build; util imports main back.                           *)
MCImports ==
    [f \in Files |-> [t \in Texts |->
        CASE f = "main" /\ t = "one" -> <<"util">>
          [] f = "main" /\ t = "two" -> <<"gen", "util">>
          [] f = "util" -> <<"main">>
          [] OTHER -> <<>>]]
MCWalked == <<"main", "util">>
MCRoots == <<"main">>
MCTests == <<"util">>
=============================================================================
