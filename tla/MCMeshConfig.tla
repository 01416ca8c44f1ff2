---------------------------- MODULE MCMeshConfig ----------------------------
(***************************************************************************)
(* Small instances of MeshConfig.                                          *)
(***************************************************************************)
EXTENDS MeshConfig

\* The labels that export a Service.
MCRules == << <<{"export"}>> >>

MCTwoSelectors == << <<{"export"}, {"public"}>> >>

\* The name and the namespace of a service.
A == << <<"a">>, <<"ns">> >>

MCOneService == {A}

MCPorts == {{"80"}}
MCPortLists == {{"80"}, {"80", "90"}}

MCIstioLocal ==
    [name |-> <<"east">>, router |-> FALSE,
     controlPlane |-> <<"istio", "system">>, pod |-> <<"istio", "system">>]
MCRouterLocal == [MCIstioLocal EXCEPT !.router = TRUE]

West ==
    [name |-> <<"west">>, router |-> FALSE, addresses |-> <<"10.0.0.1">>]
North ==
    [name |-> <<"north">>, router |-> TRUE, addresses |-> <<"n.example.com">>]
South ==
    [name |-> <<"south">>, router |-> FALSE, addresses |-> <<"s.example.com">>]

MCIPs == <<"10.0.0.1", "10.0.0.2", "10.0.0.3">>
MCAnswer == {{"10.0.0.2", "10.0.0.3"}}
MCAnswers == {{"10.0.0.2"}, {"10.0.0.3"}, {}}

MCRouterNorth == <<North>>
MCSouth == <<South>>
MCTwoRemotes == <<West, North>>

Imported(s) == [hostname |-> s, labels |-> {"export"}, ports |-> {"80"}]

MCNoResponses == {}
MCOneResponse == {{[Imported(A) EXCEPT !.labels = {}]}}
MCNoRules == <<>>
MCNoRemotes == <<>>
MCResponses == {{}, {Imported(A)}}

=============================================================================
