------------------------------ MODULE Messages ------------------------------
(***************************************************************************)
(* The messages that the servers exchange, and the two ways of putting a   *)
(* part of a message into another: the copy of GenericMapper, between the  *)
(* public and the private form of an object, and the paths of the masks.   *)
(*                                                                         *)
(* A message is a function from the paths of its fields, and of the        *)
(* entries of its maps, to their values.  A field whose enclosing message  *)
(* is absent is absent, a map is present while it has entries, and a list  *)
(* is one value.                                                           *)
(***************************************************************************)
EXTENDS Sequences, SequencesExt

CONSTANTS
    Names,       \* names of fields and keys of maps
    Paths,       \* paths of the fields and of the entries
    MapFields,   \* those of the maps
    HiddenPaths, \* those that only the private form of a message has
    Values,      \* values of fields
    Absent,      \* the value of a field that isn't set
    Present      \* the value of a message or of a map

\* The entries of maps.
Entries == {p \in Paths : Len(p) > 1 /\ Front(p) \in MapFields}

\* What is in a map isn't a map.
ASSUME PathsAssumption ==
    /\ Paths \subseteq Seq(Names)
    /\ \A p \in Paths : p # <<>> /\ (Len(p) > 1 => Front(p) \in Paths)
    /\ MapFields \union HiddenPaths \subseteq Paths
    /\ Entries \intersect MapFields = {}
    /\ {Absent, Present} \subseteq Values /\ Absent # Present

AnyMessage == [Paths -> Values]

Under(path, p) == IsPrefix(path, p)

StrictlyUnder(path, p) == Under(path, p) /\ p # path

Empty == [p \in Paths |-> Absent]

\* A map is present while it has entries.
Normal(m) ==
    [p \in Paths |->
        IF p \notin MapFields THEN m[p]
        ELSE IF \E e \in Entries : Front(e) = p /\ m[e] # Absent THEN Present
        ELSE Absent]

\* What is a message: nothing is inside of what is absent, and what has fields or
\* entries has no other value.
WellFormed(m) ==
    /\ \A p \in Paths : Len(p) > 1 =>
           /\ m[Front(p)] \in {Absent, Present}
           /\ m[p] # Absent => m[Front(p)] = Present
    /\ m = Normal(m)

----------------------------------------------------------------------------
(* GenericMapper *)

\* Mutant of Kept: the fields that only the private form has are cleared.
KeptVisible(p, from, ignored) ==
    \E q \in Paths :
        /\ Under(q, p)
        /\ \A r \in Paths : StrictlyUnder(r, q) => from[r] # Absent /\ r \notin ignored
        /\ q \in ignored \/ (q \in Entries /\ from[q] = Absent)

\* Whether copyMessage leaves the target as it is at a path: it gets to a field
\* that is ignored or that only one of the types has, or to the entry of a map
\* that the source doesn't have, along fields that the source has.
Kept(p, from, ignored) ==
    \E q \in Paths :
        /\ Under(q, p)
        /\ \A r \in Paths : StrictlyUnder(r, q) => from[r] # Absent /\ r \notin ignored
        /\ q \in HiddenPaths \union ignored \/ (q \in Entries /\ from[q] = Absent)

\* Copy a public message into a private one: a field that is absent is cleared,
\* a list is replaced, and the entries of a map are added to those of the map.
Copy(from, to, ignored) ==
    [p \in Paths |-> IF Kept(p, from, ignored) THEN to[p] ELSE from[p]]

\* Copy a private message into an empty public one.
CopyOut(from) == [p \in Paths |-> IF p \in HiddenPaths THEN Absent ELSE from[p]]

----------------------------------------------------------------------------
(* Path *)

\* The entry of a map that a path goes through, on its way to something else.
Through(path) == {e \in Entries : StrictlyUnder(e, path)}

\* Set the field of a path to what it is in another message.  The messages on
\* the way are created if they don't exist, and the entries of maps always.
PathSet(m, path, from) ==
    Normal([p \in Paths |->
        IF Under(path, p) THEN from[p]
        ELSE IF StrictlyUnder(p, path) THEN Present
        ELSE IF \E e \in Through(path) : Under(e, p) THEN Absent
        ELSE m[p]])

PathClear(m, path) ==
    Normal([p \in Paths |-> IF Under(path, p) THEN Absent ELSE m[p]])

\* Clear panics when it gets to an entry that the map doesn't have.
PathClearPanics(m, path) ==
    \E e \in Through(path) : m[e] = Absent /\ m[Front(e)] # Absent

\* Mutant of PathUpdate: a field that is absent is set too.
PathUpdateSetting(m, path, from) == PathSet(m, path, from)

\* What GenericServer.Update does with one path of the mask.
PathUpdate(m, path, from) ==
    IF from[path] # Absent THEN PathSet(m, path, from) ELSE PathClear(m, path)
=============================================================================
