------------------------------- MODULE Registry -------------------------------
(***************************************************************************)
(* Definitions of activities and of workflows, and the registries that     *)
(* hold them under their names.                                            *)
(*                                                                         *)
(* A function is what Python knows of it: a qualified name that others may *)
(* share, its parameters, what it returns and whether it is a coroutine    *)
(* function.  A call that raises without having changed anything is no     *)
(* step.                                                                   *)
(***************************************************************************)
EXTENDS Signatures, FiniteSets

CONSTANTS
    Fn,             \* the functions there are
    Registries,     \* every Registry the application makes
    Functions,      \* the definitions the module-level decorators made
    Objects,        \* objects and classes, each the public definitions in dir() order
    Classes,        \* workflow classes
    WorkflowNames   \* names workflows may be registered under, "" for the class's own

\* What dir() gives is a list.
ASSUME ObjectsAssumption ==
    \A object \in DOMAIN Objects :
        Objects[object] \in Seq({Objects[object][i] : i \in DOMAIN Objects[object]})

VARIABLES
    activities,     \* of every registry, a function from names to definitions
    workflows,      \* of every registry, a function from names to workflow definitions
    registered      \* << kind, registry, definition >> of the registrations that returned

registries == << activities, workflows, registered >>

-----------------------------------------------------------------------------
(* Definitions                                                             *)

\* What is called, what it took name, signature and strategy from, and whose method
\* it is: nobody's, a class's or an object's.
Definition(fn, name, of) ==
    [name |-> IF name = "" THEN Fn[fn].qualname ELSE name, fn |-> fn, like |-> fn, of |-> of]

\* activity.defn, activity.method and Registry.activity
Decorated(fn, name) == Definition(fn, name, "nobody")
MethodDecorated(fn, name) == Definition(fn, name, "class")

\* update_wrapper copies the inner definition over the outer one, its name too.
DecoratedAgain(definition, name) == definition

\* What __get__ makes of a method's definition, and activity.override of a base's.
Bound(definition, object) == [definition EXCEPT !.of = object]
Rebound(definition, fn) == [definition EXCEPT !.fn = fn]

Signature == [fn \in DOMAIN Fn |-> Parameters(Fn[fn])]
Params(definition) == Signature[definition.like]
Returns(definition) == Fn[definition.like].returns
Strategy(definition) == IF Fn[definition.like].coroutine THEN "ASYNC" ELSE "THREAD_POOL"

\* SignalDefinition.wrap: a hint of None is type(None) here, and is refused as well.
SignalDeclarable(fn) == Declarable(Fn[fn]) /\ Fn[fn].returns = {}

\* WorkflowDefinition.wrap: one run method, which is async, and a name per signal.
Members(cls) == {i \in DOMAIN cls.members : ~cls.members[i].private}
RunMethods(cls) == {i \in Members(cls) : cls.members[i].run}
Signals(cls) == {i \in Members(cls) : cls.members[i].signal # ""}
Wrappable(cls) ==
    /\ Cardinality(RunMethods(cls)) = 1
    /\ \A i \in RunMethods(cls) : Fn[cls.members[i].fn].coroutine /\ Declarable(Fn[cls.members[i].fn])
    /\ \A i \in Signals(cls) : SignalDeclarable(cls.members[i].fn)
    /\ \A i, j \in Signals(cls) : cls.members[i].signal = cls.members[j].signal => i = j

Wrapped(cls, name) ==
    Definition(cls.members[CHOOSE i \in RunMethods(cls) : TRUE].fn,
               IF name = "" THEN cls.name ELSE name, cls.name)

-----------------------------------------------------------------------------
(* Registries                                                              *)

\* Mutant of IsNew: names are not looked up before they are set.
IsNew_always(table, name) == TRUE

IsNew(table, name) == name \notin DOMAIN table

\* Python's update: what is new replaces what was there.
Updated(table, entries) ==
    [name \in DOMAIN table \cup DOMAIN entries |->
        IF name \in DOMAIN entries THEN entries[name] ELSE table[name]]
Registers(table, definition) == Updated(table, [name \in {definition.name} |-> definition])

RegistryInit ==
    /\ activities = [r \in Registries |-> << >>]
    /\ workflows = [r \in Registries |-> << >>]
    /\ registered = {}

\* register_activity, and activity as a decorator, which goes by _register_activity.
register_activity(r, definition) ==
    /\ Declarable(Fn[definition.fn])
    /\ IsNew(activities[r], definition.name)
    /\ activities' = [activities EXCEPT ![r] = Registers(@, definition)]
    /\ registered' = registered \cup {<< "activity", r, definition >>}
    /\ UNCHANGED workflows

\* The first definition of an object whose name is taken, by the registry or by
\* the object itself, raises; those before it stay.
Refused(table, found) ==
    {i \in DOMAIN found : \/ ~IsNew(table, found[i].name)
                          \/ \E j \in 1..(i - 1) : found[j].name = found[i].name}
Taken(table, found) ==
    {found[i] : i \in {k \in DOMAIN found : \A j \in Refused(table, found) : k < j}}

register_activities(r, object) ==
    LET found == Objects[object]
        taken == Taken(activities[r], found)
    IN  /\ taken # {}
        /\ activities' = [activities EXCEPT ![r] =
               Updated(@, [name \in {d.name : d \in taken} |->
                              CHOOSE d \in taken : d.name = name])]
        /\ registered' = IF Refused(activities[r], found) # {} THEN registered
                         ELSE registered \cup {<< "activity", r, d >> : d \in taken}
        /\ UNCHANGED workflows

\* Registry.workflow
register_workflow(r, cls, name) ==
    LET definition == Wrapped(cls, name)
    IN  /\ Wrappable(cls)
        /\ IsNew(workflows[r], definition.name)
        /\ workflows' = [workflows EXCEPT ![r] = Registers(@, definition)]
        /\ registered' = registered \cup {<< "workflow", r, definition >>}
        /\ UNCHANGED activities

\* Mutant of Summable: nothing is refused, and the right one wins.
Summable_always(left, right) == TRUE

Summable(left, right) == DOMAIN left \cap DOMAIN right = {}

\* __add__, and Registry.of, which adds to an empty one: the sum is new, and a name
\* both have raises before anyone sees it.  An empty operand would add nothing.
Add(left, right, sum) ==
    LET operands == {left, right}
    IN  /\ \A r \in operands : DOMAIN activities[r] \cup DOMAIN workflows[r] # {}
        /\ sum \notin operands /\ DOMAIN activities[sum] \cup DOMAIN workflows[sum] = {}
        /\ Summable(activities[left], activities[right])
        /\ Summable(workflows[left], workflows[right])
        /\ activities' = [activities EXCEPT ![sum] = Updated(activities[left], activities[right])]
        /\ workflows' = [workflows EXCEPT ![sum] = Updated(workflows[left], workflows[right])]
        /\ registered' = registered \cup
               {<< e[1], sum, e[3] >> : e \in {k \in registered : k[2] \in operands}}

Registering ==
    \E r \in Registries :
        \/ \E definition \in Functions : register_activity(r, definition)
        \/ \E object \in DOMAIN Objects : register_activities(r, object)
        \/ \E cls \in Classes, name \in WorkflowNames : register_workflow(r, cls, name)
        \/ \E left, right \in Registries : left # right /\ Add(left, right, r)

\* A name that means something to a registry means it for ever, whatever is
\* refused in the middle of a class or of a sum (_registry.py:155, 200).
KeepsMeaning(before, after) == \A name \in DOMAIN before :
    name \in DOMAIN after /\ after[name] = before[name]
NamesKeepMeaning ==
    [][\A r \in Registries : /\ KeepsMeaning(activities[r], activities'[r])
                             /\ KeepsMeaning(workflows[r], workflows'[r])]_registries
=============================================================================
