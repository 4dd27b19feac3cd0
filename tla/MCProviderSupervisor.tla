------------------------ MODULE MCProviderSupervisor ------------------------
(* Instance of ProviderSupervisor for TLC: three supervisors.               *)
EXTENDS ProviderSupervisor, TLC

CONSTANTS s1, s2, s3

MCSupervisors == {s1, s2, s3}

=============================================================================
