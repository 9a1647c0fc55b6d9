------------------------------ MODULE Process ------------------------------
(***************************************************************************)
(* What the models of the start of a server process, of its requests and   *)
(* of both have in common: what they are given, what they assume of it,    *)
(* and how the process ended, if it has.                                   *)
(***************************************************************************)
EXTENDS Naturals

CONSTANTS Deployments,  \* the settings tried
          MaxItems,     \* telemetry a part holds before it drops more
          Calls,        \* the requests of one run
          Kinds,        \* what their handlers do
          Filters,      \* the errorFilters of their transactions
          Times,        \* the attempts a transaction may make
          None          \* no request

ASSUME MaxItemsAssumption == MaxItems \in Nat \ {0}
ASSUME KindsAssumption == Kinds \subseteq {"put", "get", "delete", "unnamed", "stray"}
ASSUME FiltersAssumption == Filters \subseteq {"default", "any", "throws"}
ASSUME TimesAssumption == Times \in Nat \ {0}
ASSUME NoneAssumption == None \notin Calls

VARIABLE exit  \* "no" while the process runs

Ways == {"0", "1", "killed"}

=============================================================================
