---------------------------- MODULE MCDacSession ----------------------------
(* Instances of DacSession for TLC. *)
EXTENDS DacSession

SoftShot == {[infinite |-> FALSE, stop |-> 3, trig |-> "software"]}
TwoChans == {0, Digital}
Both == [direct  |-> [modes |-> {"voltage", "static"},
                      waves |-> {<<0, 1>>, <<0, 2>>, <<Digital, 2>>}],
         library |-> [modes |-> {"voltage", "static", "dynamic"},
                      waves |-> {<<0, 1>>, <<0, 2>>}]]
=============================================================================
