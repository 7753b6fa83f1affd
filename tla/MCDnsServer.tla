----------------------------- MODULE MCDnsServer ----------------------------
(* An instance of DnsServer for TLC: a name that the registry may hold and *)
(* for which upstream has an A record only, or which it does not know.     *)
EXTENDS DnsServer

CONSTANTS svc, a1, q1, q2

OneName == {svc}
OneAddr == {a1}
TwoSlots == {q1, q2}

PublicA == [k \in {svc} \X Types |->
              IF k[2] = "A" THEN "records" ELSE "nodata"]
Private == [k \in {svc} \X Types |-> "nxdomain"]
TwoZones == {PublicA, Private}

AskBoth == {<< <<svc, "AAAA">>, <<svc, "A">> >>}

=============================================================================
