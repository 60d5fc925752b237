-------------------------- MODULE MCServerStartup --------------------------
(* Instances of ServerStartup for TLC. *)
EXTENDS ServerStartup

(* Flags of a report, which has a named handler, and of an analysis, which *)
(* has a numbered one                                                      *)
SmallFlags ==
  {NoFlags, [t \in {"select"} |-> FALSE],
   [t \in {"select", "top_statements"} |-> t = "select"],
   [t \in {"top_statements"} |-> TRUE]}

SmallInstanceFlags ==
  {NoFlags} \cup {[i \in {"primary"} |-> f] : f \in SmallFlags \ {NoFlags}}
            \cup {[i \in Instance |-> CHOOSE f \in SmallFlags : DOMAIN f = {"select"}]}

(* Where the flags do not matter: empty maps *)
NoMaps == {NoFlags}
=============================================================================
