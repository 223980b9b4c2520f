---------------------------- MODULE MCNestedRun ----------------------------
(* Small declarations for TLC: three tests in up to three suites. *)
EXTENDS NestedRun
MCTests == 1 .. 3
MCSuites == 1 .. 3

Shapes == {<< <<1>>, <<1>>, <<1>> >>,
           << <<1>>, <<1, 2>>, <<1, 2>> >>,
           << <<1, 2>>, <<1, 2>>, <<1, 3>> >>,
           << <<1, 2>>, <<1, 2, 3>>, <<1>> >>}
MCDecls ==
  {d \in [ancestors : Shapes, serial : {{}, {1}, {2}}, retries : {<<1, 0, 1>>}, expected : {{}, {1}},
          hooked : {{1, 2, 3}, {2}}, limit : {0, 1}] :
     /\ d.serial = {2} => d.ancestors # << <<1>>, <<1>>, <<1>> >>
     /\ d.expected = {1} => d.ancestors[1] = d.ancestors[2] /\ d.serial # {1}
     /\ IF d.limit = 1 THEN d.expected = {} /\ d.hooked = {2} /\ d.ancestors[3] # <<1>>
        ELSE d.hooked = {1, 2, 3}}
=============================================================================
