---------------------------- MODULE MCExposure ----------------------------
(* A registry, which has a host of its own, and the dashboard.  On OpenShift *)
(* a host name of the user's comes with an edit.                            *)
EXTENDS Exposure

MCComponents == <<"plugin-registry", "dashboard">>

MCFirstCRs == {f \in Choices : f.openShift => f.cheHost = ""}
=============================================================================
