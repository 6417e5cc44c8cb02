--------------------------- MODULE MCSiteLifecycle ---------------------------
(***************************************************************************)
(* Instances of SiteLifecycle: a site the panel manages (a), a subdomain   *)
(* of it that can be created (s), and a site the operator configured (m)   *)
(* with a subdomain (n).  A menu is what is asked for in one behaviour.    *)
(***************************************************************************)
EXTENDS SiteLifecycle

CONSTANTS a, s, m, n

Parents    == [d \in Domain |-> IF d = s THEN a ELSE IF d = n THEN m ELSE None]
OtherNames == [d \in Foreign |-> "other"]

\* Any two operations against each other ...
Pairs == {{p, q} : p, q \in Op} \cup
         { {"switch", "save"}, {"rm", "scan"}, {"adopt", "rm"}, {"edit", "create"} }
\* ... and the one a comment's promise fails for.
ServeMenus == { {"serve"} }
=============================================================================
