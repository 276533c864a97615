----------------------------- MODULE MCOpenFiles -----------------------------
(* An instance of OpenFiles: two files, each with its plain name and with  *)
(* others, on a device of six sectors.                                     *)
EXTENDS OpenFiles

MCNames == {"f", "g"}
MCPaths == {Plain("f"), Plain("g"), [prefix |-> "/", name |-> "f"],
            [prefix |-> "/", name |-> ""]}
MCRmPaths == {[prefix |-> "g", name |-> "f"], [prefix |-> ".", name |-> "g"]}
=============================================================================
