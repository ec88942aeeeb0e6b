------------------------------ MODULE MCArchiver ------------------------------
(* Small instance of Archiver: a _tbt table that loses its hours after two days,*)
(* its _price table, whose three days are scaled to one, and three nights.      *)
EXTENDS Archiver

MCTables   == {"tbt", "price"}
MCSnapshot == [t \in {"tbt"} |-> "price"]
MCTtl      == [tbt |-> 2, price |-> 1]
MCHourly   == {"tbt"}
=============================================================================
