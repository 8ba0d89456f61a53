----------------------------- MODULE MCRollout -----------------------------
(* The skeleton of a multi-user installation on OpenShift: the database    *)
(* and its provisioning, the endpoint, the server's ConfigMap and its      *)
(* Deployment, the availability status, and the ConsoleLink.               *)
EXTENDS Rollout

CONSTANTS Postgres, Route, CheConfig, CheServer, ConsoleLink

MCObjects       == {Postgres, Route, CheConfig, CheServer, ConsoleLink}
MCDeployments   == {Postgres, CheServer}
MCReplaced      == {Route}
MCLabelCompared == {Route, CheConfig}
MCClusterScoped == {ConsoleLink}

On(call, obj) == [call |-> call, obj |-> obj]

MCStages ==
  << On("sync", Postgres), On("await", Postgres), On("provision", Postgres),
     On("sync", Route), On("exists", Route),
     On("sync", CheConfig), On("exists", CheConfig),
     On("sync", CheServer), On("await", CheServer), On("status", CheServer),
     On("ensure", ConsoleLink) >>
=============================================================================
