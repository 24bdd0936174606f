----------------------------- MODULE MCEventWire -----------------------------
(* Both ends of every table and one value past each; a plain host error,    *)
(* each way of holding a sentinel, and an error that holds two identities.  *)
EXTENDS EventWireProperties

AllKinds   == {-1, 0, 3, 11, 12}
AllStates  == {-1, 0, 1, 6, 7}
AllRulings == {-1, 0, 2, 3}
AllAsks    == {-1, 0, 3, 4}

AllErrors ==
    {[is |-> {"host"}, text |-> "bytes"],
     [is |-> {"max-rounds"}, text |-> "max-rounds"],
     [is |-> {"cell-closed"}, text |-> "clean"],
     [is |-> {"max-rounds", "foreign-session"}, text |-> "clean"],
     [is |-> {"cell-closed", "host"}, text |-> "clean"]}

AllStrings ==
    Literals \cup {"host"} \cup ToSet(eventKindNames) \cup ToSet(loopStateNames)
        \cup ToSet(verdictNames) \cup ToSet(waitKindNames) \cup ToSet(frameworkErrs)
=============================================================================
