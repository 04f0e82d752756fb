---------------------------- MODULE MCSnapshotLoad ----------------------------
(***************************************************************************)
(* A CAMA file of dwellings with sketches and of values, with up to four   *)
(* lines in a part, and a tax roll, whose load skips repeated keys, of up  *)
(* to four.  Chunks have two rows; one bad row in three is accepted.       *)
(***************************************************************************)
EXTENDS SnapshotLoad

CONSTANTS k1, k2, k3, dwelling, sketch, value, roll

MCKind == {"cama", "taxroll"}
MCParts == [k \in MCKind |-> IF k = "cama" THEN <<dwelling, value>> ELSE <<roll>>]
MCSide == [p \in {dwelling, value, roll} |-> IF p = dwelling THEN sketch ELSE None]

Cama(d, s, v) == [p \in {dwelling, sketch, value} |->
                    IF p = dwelling THEN d ELSE IF p = sketch THEN s ELSE v]

Dwellings == {<<>>, <<More, k1>>, <<k1, More, More, k2>>, <<k1, Bad, More, k2>>, <<k2, k1, k3>>,
              <<k1, k2, k1>>, <<Bad, k1>>}
Sketches == {<<>>, <<k1, k2, More, k1>>, <<k1, k1, Bad>>}
Values == {<<>>, <<k1, k2, k3>>, <<k1, Bad>>, <<k2, k2>>}
Rolls == {<<>>, <<k1, k2>>, <<k1, k1, k2>>, <<k1, k2, k3, k1>>, <<k1, Bad, k2, k3>>,
          <<Bad, k1, k2, Bad>>, <<k2, k3, k2, Bad>>}

MCFile == [k \in MCKind |->
              IF k = "cama"
              THEN {Cama(d, s, <<k2>>) : d \in Dwellings, s \in Sketches}
                   \cup {Cama(<<k1, k3>>, <<k3, k1, Bad, Bad>>, v) : v \in Values}
                   \cup {Cama(<<k1, k3>>, <<k3, k1, k1, k3>>, v) : v \in Values}
              ELSE [{roll} -> Rolls]]
===============================================================================
