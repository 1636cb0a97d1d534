----------------------------- MODULE MCWatchLoop -----------------------------
(* A password account and a Microsoft account, both loops, two logins of   *)
(* the board and the probe request.                                        *)
EXTENDS WatchLoop, TLC

CONSTANTS t1, t2, c1, broken

MCAccounts == {"a", "m"}
MCMicrosoft == {"m"}
MCConnectors == {"watch", "serve", "probe"}
MCBoard == {t1, t2}
MCOrder == <<"a", "m">>
Has(a, m) == [x \in MCAccounts |-> IF x = "a" THEN a ELSE m]
MCFiles == {[mode |-> "watch", has |-> Has("full", "full")],
            [mode |-> "once", has |-> Has("absent", "bare")]}
MCStores == {Has("absent", "absent"), Has("full", "absent")}
MCDeployments == {{"watch"}, {"serve"}}
MCOnly == {"all", "a"}
=============================================================================
