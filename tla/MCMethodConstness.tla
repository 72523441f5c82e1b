-------------------------- MODULE MCMethodConstness --------------------------
EXTENDS MethodConstness

CONSTANT InnerAssignments   \* do bodies assign to fields of fields?

assign == [kind |-> "assign"]
assignInner == [kind |-> "assignInner"]
callThis(m) == [kind |-> "callThis", callee |-> m]
callConst(m) == [kind |-> "callConst", callee |-> m]

MCWrittenAs ==
    [o \in Written \cup Instances \cup {Outside} |->
        IF o = "inst_of_t" THEN "t" ELSE o]

(* A method does nothing, assigns, calls one or two methods, or calls one  *)
(* and then assigns; the template t is called by a, and may call a back.   *)
Writes == {<<assign>>} \cup IF InnerAssignments THEN {<<assignInner>>} ELSE {}
MCTexts ==
    [o \in Written \cup {Outside} |->
        CASE o = "a" -> {<<>>} \cup Writes \cup {<<callThis("b")>>, <<callThis("c")>>,
                         <<callThis("t")>>, <<callThis("t"), callThis("b")>>}
          [] o = "b" -> {<<>>, <<assign>>, <<callThis("a")>>, <<callThis("c")>>}
          [] o = "c" -> {<<>>, <<assign>>, <<callThis("a")>>, <<callThis("b")>>,
                         <<callThis("a"), callThis("b")>>}
          [] o = "t" -> {<<>>, <<assign>>, <<callThis("a"), assign>>, <<callConst("a")>>}
          [] o = Outside -> {<<callConst("a"), callConst("b"), callConst("c")>>,
                             <<callConst("t"), callConst("t")>>}]

=============================================================================
