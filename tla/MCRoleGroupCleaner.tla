------------------------- MODULE MCRoleGroupCleaner -------------------------
(* Small instances of RoleGroupCleaner.                                    *)
EXTENDS RoleGroupCleaner

\* Every group belongs to the one role.
MCRoleOf == [g \in Groups |-> 1]

NoAlias == << >>

\* Group 2 is named like the metrics Service of group 1.
MetricsAlias == [d \in {<<1, "metrics">>} |-> 2]

NoKeys == {}

\* Another controller holds the name of group 1's metrics Service.
SomeForeignKeys == {<<1, "metrics">>}
=============================================================================
