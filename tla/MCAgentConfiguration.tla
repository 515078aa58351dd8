------------------------ MODULE MCAgentConfiguration ------------------------
(* Small instances of AgentConfiguration for TLC: one setting of each      *)
(* owner, a legacy release 1, a personal baseline 2 that may be rolled     *)
(* back to it, and feeds of one or two channels that publish them.         *)
EXTENDS AgentConfiguration, TLC

CONSTANTS soul, network, verbose, c1, c2, b1, b2, f1, f2, e1,
          stable, canary, d1, d2, d3, d4

AllSet(v) == [f \in Fields |-> v]

PatchesMC ==
    {[id |-> c1, expected |-> None, patch |-> soul :> 1],
     [id |-> c1, expected |-> None, patch |-> verbose :> 1],
     [id |-> c2, expected |-> None, patch |-> network :> 0]}
    \union [id : {c2}, expected : {2}, patch : {verbose :> 1}]

BootstrapsMC ==
    {[id |-> b1, profile |-> "native", expected |-> None, fence |-> 0,
      settings |-> AllSet(0)],
     [id |-> b2, profile |-> "toolbox", expected |-> None, fence |-> 0,
      settings |-> AllSet(1)],
     [id |-> f1, profile |-> "toolbox", expected |-> None, fence |-> 1,
      settings |-> AllSet(0)],
     [id |-> f2, profile |-> "toolbox", expected |-> 1, fence |-> 2,
      settings |-> AllSet(1)]}

EnrollmentsMC == [id : {e1}, expected : 1..MaxRevision, sequence : {1, 2}]

Legacy == [sequence |-> 1, baseline |-> FALSE, rollbackTo |-> 0,
           settings |-> soul :> 1]
Baseline == [sequence |-> 2, baseline |-> TRUE, rollbackTo |-> 1,
             settings |-> soul :> 0 @@ network :> 1]

Publications ==
    {[channel |-> stable, feed |-> 1, digest |-> d1, kind |-> "release",
      from |-> 0, manifest |-> Legacy, on |-> {0, 1}],
     [channel |-> stable, feed |-> 2, digest |-> d2, kind |-> "release",
      from |-> 0, manifest |-> Baseline, on |-> {1, 2}],
     [channel |-> stable, feed |-> 3, digest |-> d3, kind |-> "rollback",
      from |-> 2, manifest |-> Legacy, on |-> {1, 2}],
     [channel |-> canary, feed |-> 1, digest |-> d4, kind |-> "rollback",
      from |-> 2, manifest |-> Legacy, on |-> {2}]}

(* A publication as a command that expects revision e and release x; the  *)
(* old contract is used where release 1 is expected.                       *)
Issued(p, e, x, y) ==
    [channel |-> p.channel, feed |-> p.feed, digest |-> p.digest,
     kind |-> p.kind, from |-> p.from, manifest |-> p.manifest,
     expected |-> e, expectedCurrent |-> x, current |-> y]

ReleasesMC ==
    UNION {{Issued(p, e, x, x # 1) : x \in p.on,
              e \in {None} \union (1..(MaxRevision - 1))} : p \in Publications}
=============================================================================
