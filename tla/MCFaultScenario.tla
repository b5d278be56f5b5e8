-------------------------- MODULE MCFaultScenario --------------------------
(* The TLC instances of FaultScenario.                                      *)
EXTENDS FaultScenarioRefinement, TLC

CONSTANTS gnb, amf

Fault(t, s) == [type |-> t, target |-> s]

GnbOnly == {gnb}
GnbAndAmf == {gnb, amf}

\* One fault of each kind, the service faults also on a container that the
\* user plane does not need, and two with a rejected target.
AllFaults ==
  {Fault("none", NoService), Fault("dnn_mismatch", NoService)}
  \union {Fault(t, gnb) : t \in ServiceFaults \union Impairments}
  \union {Fault(t, amf) : t \in ServiceFaults}
  \union {Fault("stop_service", NoService), Fault("n3_impairment", NoService)}

ImpairmentFaults == {Fault(t, gnb) : t \in Impairments}
SequentialFaults == ImpairmentFaults \union {Fault("stop_service", gnb)}

\* The runs are interchangeable: no property singles one out.
RunSymmetry == Permutations(Runs)

\* For runs one after the other: an ended run takes no step any more, so of
\* its own state only the verdict is kept apart.
SequenceView ==
  <<world, orphans, fault,
    [r \in Runs |->
       IF pc[r] \in Ended THEN <<"ended", status[r] = "PASS">>
       ELSE <<pc[r], op[r], ret[r], masked[r], dangled[r], applied[r],
              cleanupRequired[r], createdClsact[r], filterCleanup[r],
              restartFrom[r], failed[r], infraError[r], rollbackError[r],
              faultApplied[r], faultVerified[r], rollbackVerified[r],
              recoveryAttempted[r], escaping[r], traffic[r], recoveryOk[r],
              recovery[r], held[r]>>]>>
=============================================================================
