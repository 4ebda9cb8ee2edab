-------------------------- MODULE MCGenericServer --------------------------
(***************************************************************************)
(* Small instances of GenericServer: a private caller r1, that has no      *)
(* tenancy filter, the caller r2 of a tenant that sees what it creates and *)
(* what r1 creates, and the caller r3 of a tenant that sees only its own.  *)
(***************************************************************************)
EXTENDS GenericServer

CONSTANTS id1, id2, f1, r1, r2, r3, n1, n2

MCTenants == {"shared", "mine"}

MCAssignedTenants ==
    [r \in Requests |-> CASE r = r1 -> {"shared"}
                          [] r = r2 -> {"mine"}
                          [] r = r3 -> {"mine"}]

MCVisibleTenants ==
    [r \in Requests |-> CASE r = r1 -> {}
                          [] r = r2 -> {"shared", "mine"}
                          [] r = r3 -> {"mine"}]

MCFields == {"spec", "kubeconfig"}

MCSecrets == {"kubeconfig"}

MCValues == {"unset", "set"}

Obj(spec, finalizers, exact) ==
    [data       |-> [spec |-> spec, kubeconfig |-> "set"],
     finalizers |-> finalizers,
     tenants    |-> {"shared"},
     exact      |-> exact]

Create(id, finalizers) ==
    [op |-> "create", id |-> id, object |-> Obj("unset", finalizers, TRUE), mask |-> NoMask]

\* A whole object without metadata.
Replace(id) ==
    [op |-> "update", id |-> id, object |-> Obj("set", {}, FALSE), mask |-> NoMask]

\* The object as it was created with a finalizer.
WriteBack(id) ==
    [op |-> "update", id |-> id, object |-> Obj("unset", {f1}, TRUE), mask |-> NoMask]

SetSpec(id) ==
    [op |-> "update", id |-> id, object |-> Obj("set", {}, TRUE), mask |-> {"spec"}]

RemoveFinalizer(id) ==
    [op |-> "update", id |-> id, object |-> Obj("set", {}, TRUE), mask |-> {FinalizersPath}]

Remove(id) ==
    [op |-> "delete", id |-> id, object |-> Obj("unset", {}, TRUE), mask |-> NoMask]

\* Both callers create the object with a finalizer, remove the finalizer and delete; the
\* private one writes back what it has created, the other one creates without a finalizer and
\* replaces the object or its specification.
MCCalls ==
    [r \in Requests |->
        UNION {{Create(id, {f1}), RemoveFinalizer(id), Remove(id)}
                   \union IF r = r1 THEN {WriteBack(id)}
                          ELSE {Create(id, {}), Replace(id), SetSpec(id)} : id \in Ids}]

\* Calls for the same row and for different ones, for the run about waiting.
MCFewCalls ==
    [r \in Requests |-> CASE r = r1 -> {Create(id1, {})}
                          [] r = r2 -> {Create(id2, {})}
                          [] r = r3 -> {Create(id1, {})}]
============================================================================
