--------------------------- MODULE MCObjectServer ---------------------------
(***************************************************************************)
(* A small instance of ObjectServer, with one parameter, one node set and  *)
(* one finalizer.                                                          *)
(***************************************************************************)
EXTENDS ObjectServer, ObjectStoreProofs

CONSTANT MaxEvents  \* bound on the length of the log

Bound == Len(log) < MaxEvents

AllKinds == KindsOfObjects

NodeSet == <<"spec", "node_sets", "n">>

Parameter == <<"spec", "template_parameters", "p">>

OtherParameter == <<"spec", "template_parameters", "q">>

SpecPath == <<"spec">>

MCPaths ==
    {MetadataPath, FinalizersPath, SpecPath, TemplatePath, ParametersPath, Parameter,
     OtherParameter, NodeSetsPath, NodeSet, Append(NodeSet, "host_class"),
     Append(NodeSet, "size"), StatusPath, StatePath, HubPath}

MCNames == STRING

MCMapFields == {ParametersPath, NodeSetsPath}

MCHiddenPaths == {FinalizersPath, HubPath}

\* The template as it is first, and one with another default and other node sets.
MCTemplates ==
    {[parameters |-> [p |-> "string"], required |-> {}, defaults |-> [p |-> "x"],
      node_sets |-> [n |-> [host_class |-> "small", size |-> "three"]]],
     [parameters |-> [p |-> "string", q |-> "string"], required |-> {"p"},
      defaults |-> [q |-> "y"], node_sets |-> [n |-> [host_class |-> "big", size |-> "one"]]]}

MCTypeOf == [x |-> "string", y |-> "string", z |-> "integer"]

MCValues ==
    {"T", "x", "y", "z", "f", "h", "small", "big", "zero", "one", "three",
     "claimed", "ready", Absent, Present}

\* A message with the values of some fields, and what encloses them.
Message(values) ==
    [p \in MCPaths |->
        IF p \in DOMAIN values THEN values[p]
        ELSE IF \E q \in DOMAIN values : StrictlyUnder(p, q) THEN Present
        ELSE Absent]

Size(s) == Append(NodeSet, "size") :> s

HostClass(h) == Append(NodeSet, "host_class") :> h

FromTemplate == TemplatePath :> "T"

\* The first is accepted by the first contents of the template only, the third by the
\* others, the second by both, and the last, of a user that claims a state, by none.
MCPublicMessages ==
    {Message(values) : values \in {
        FromTemplate @@ Size("one") @@ MetadataPath :> Present @@ StatePath :> "claimed",
        FromTemplate @@ Parameter :> "y",
        FromTemplate @@ Parameter :> "y" @@ OtherParameter :> "x" @@ HostClass("big")
            @@ Size("three") @@ MetadataPath :> Present @@ StatusPath :> Present,
        Parameter :> "z" @@ Size("zero") @@ StatePath :> "claimed"}}

MCMasks ==
    {NoMask, <<SpecPath>>, <<Append(NodeSet, "size")>>, <<StatusPath, MetadataPath>>,
     <<Parameter, HubPath>>}
=============================================================================
