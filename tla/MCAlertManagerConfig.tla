----------------------- MODULE MCAlertManagerConfig -----------------------
EXTENDS AlertManagerConfigController
CONSTANTS a1, a2, s2, d1, d2
MCSecretOf == [a \in {a1, a2} |-> IF a = a1 THEN a1 ELSE s2]
MCDatasourceOf == [a \in {a1, a2} |-> IF a = a1 THEN d1 ELSE d2]
=============================================================================
