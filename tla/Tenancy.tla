------------------------------- MODULE Tenancy -------------------------------
(***************************************************************************)
(* Which tenants the objects that a subject creates are assigned to, and   *)
(* which tenants a subject can see.  A server has one of three logics: the *)
(* private servers that of the system, and the public ones, by an option   *)
(* of the command line, that of service accounts or the default one.       *)
(***************************************************************************)

CONSTANTS
    Logic,       \* the logic of the public servers
    NoNamespace  \* of a user whose name isn't that of a service account

Logics == {"default", "serviceaccount", "system"}

ASSUME LogicAssumption == Logic \in Logics \ {"system"}

\* The tenant that everybody sees.
Shared == "shared"

\* Who does the work for a subject, a record with its source, its groups, and
\* the namespace in the name of its user.
SelectDelegate(logic, subject) ==
    CASE logic # "default"                    -> logic
      [] subject.source = "serviceaccount"    -> "serviceaccount"
      [] subject.source \in {"jwt", "none"}   -> "jwt"
      [] OTHER                                -> "unknown"

\* Whether the tenants can be determined at all.
Determined(logic, subject) ==
    CASE SelectDelegate(logic, subject) = "serviceaccount" -> subject.namespace # NoNamespace
      [] SelectDelegate(logic, subject) = "unknown"        -> FALSE
      [] OTHER                                             -> TRUE

DetermineAssignedTenants(logic, subject) ==
    CASE SelectDelegate(logic, subject) = "jwt"            -> subject.groups
      [] SelectDelegate(logic, subject) = "serviceaccount" -> {subject.namespace}
      [] SelectDelegate(logic, subject) = "system"         -> {Shared}

\* Mutant of DetermineVisibleTenants: who has no groups sees no tenants at all.
DetermineOwnTenants(logic, subject) ==
    CASE SelectDelegate(logic, subject) = "jwt"            -> subject.groups
      [] SelectDelegate(logic, subject) = "serviceaccount" -> {subject.namespace}
      [] SelectDelegate(logic, subject) = "system"         -> {}

\* No tenants at all means that the objects aren't filtered.
DetermineVisibleTenants(logic, subject) ==
    CASE SelectDelegate(logic, subject) = "jwt"            -> subject.groups \union {Shared}
      [] SelectDelegate(logic, subject) = "serviceaccount" -> {subject.namespace, Shared}
      [] SelectDelegate(logic, subject) = "system"         -> {}
=============================================================================
