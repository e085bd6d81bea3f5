---------------------------- MODULE MCMySessions ----------------------------
(***************************************************************************)
(* MySessions in two scenes.  In "kills" two sessions meet over one        *)
(* database while the environment is calm: the checker leaves the gate and *)
(* the registry alone, Redash gives its schema and clients stay until they *)
(* are sent away.  The end of a query or of a connection waits for none of *)
(* that.  In "databases" one session is alone with the whole environment.  *)
(***************************************************************************)
EXTENDS MySessions

CONSTANTS Alone,        \* the session of "databases"
          TheSource     \* the data source of "kills"

VARIABLE scene

CalmInit == registry = [name \in Names |-> TheSource]

CalmStep ==
    /\ UNCHANGED <<gate, registry, peer>>
    /\ \A c \in Conns : st[c] = "schema" /\ st'[c] # "schema" => Ready(schemaCache'[c])

AloneStep == \A c \in Conns \ {Alone} : st'[c] = "new"

SceneInit ==
    /\ Init
    /\ scene \in {"kills", "databases"}
    /\ scene = "kills" => CalmInit

SceneNext ==
    /\ Next
    /\ UNCHANGED scene
    /\ scene = "kills" => CalmStep
    /\ scene = "databases" => AloneStep

SceneSpec == SceneInit /\ [][SceneNext]_<<vars, scene>> /\ Fairness
=============================================================================
