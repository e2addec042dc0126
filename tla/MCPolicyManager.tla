--------------------------- MODULE MCPolicyManager ---------------------------
(* Finite instances of PolicyManager: a server with a probe thread t1 and  *)
(* an administrator's thread t2 and, where there are three, a CLI process. *)
EXTENDS PolicyManager, TLC

CONSTANTS t1, t2, t3, server, cli

ServerHome == t1 :> server @@ t2 :> server
ServerCalls == t1 :> {"publish"} @@ t2 :> {"context", "publish"}

ServerAndCliHome == ServerHome @@ t3 :> cli
ServerAndCliCalls ==
    t1 :> {"context", "publish"} @@ t2 :> {"reload"} @@ t3 :> {"publish"}
=============================================================================
