---------------------------- MODULE MCWorkerInit ----------------------------
(***************************************************************************)
(* Four servers: the main server, a virtual host that shares its           *)
(* configuration, one with a configuration of its own and one whose merge  *)
(* overflowed.                                                             *)
(***************************************************************************)
EXTENDS WorkerInit, TLC

CONSTANTS f1, f2

MCConfigOf == ("main" :> f1) @@ ("shared" :> f1) @@ ("own" :> f2) @@ ("broken" :> NoConfig)
MCServers == <<"main", "shared", "own", "broken">>
=============================================================================
