------------------------------ MODULE MCCompose ------------------------------
(* Images for TLC: a service behind a registry with a port; one that names   *)
(* no tag.                                                                   *)
EXTENDS Compose

MCFirst == <<"reg.io", ":", "5000", "/", "app", ":", "1.0.0">>
MCBare == <<"app">>
MCPushed == {<<"reg.io", ":", "5000", "/", "app", ":", "1.0.1">>,
             <<"reg.io", ":", "5000", "/", "app", ":", "1.1.0">>}

MCSemver == [t \in {<<"1.0.0">>, <<"1.0.1">>, <<"1.1.0">>} |->
               <<1, IF t = <<"1.1.0">> THEN 1 ELSE 0, IF t = <<"1.0.1">> THEN 1 ELSE 0>>]

\* The images of the service that names a tag are what the theorems ask for.
ASSUME MCTagged == \A r \in {MCFirst} \cup MCPushed :
                      HasTag(NoPin(r)) /\ ImageTag(r) \in DOMAIN Semver
=============================================================================
