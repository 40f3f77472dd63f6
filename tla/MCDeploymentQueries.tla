-------------------------- MODULE MCDeploymentQueries --------------------------
(* DeploymentQueries with one service whose name begins another's, and with  *)
(* an environment whose name holds a colon, so that on Redis the key of api  *)
(* in worker:prod is that of api:worker in prod.                             *)
EXTENDS DeploymentQueries

Api == <<"api">>
ApiWorker == <<"api", "worker">>
Prod == <<"prod">>
Stage == <<"stage">>
WorkerProd == <<"worker", "prod">>

Slot(service, environment) == [service |-> service, environment |-> environment]
Prefixed == {Slot(Api, Prod), Slot(Api, Stage), Slot(ApiWorker, Prod)}
Colons == {Slot(Api, WorkerProd), Slot(ApiWorker, Prod)}

Names == <<Api, ApiWorker, Prod, Stage, WorkerProd>>
Order(name) == CHOOSE n \in DOMAIN Names : Names[n] = name

Query(kind, service, environment, since, limit) ==
    [kind |-> kind, service |-> service, environment |-> environment,
     since |-> since, limit |-> limit]

Queries ==
    {Query("latest", Api, None, 0, 1), Query("list", None, Prod, 2, 9),
     Query("exact", Api, Prod, 0, 1)}

ColonQueries == {Query("exact", Api, WorkerProd, 0, 1)}
=============================================================================
