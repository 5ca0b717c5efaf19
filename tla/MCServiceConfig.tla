--------------------------- MODULE MCServiceConfig ---------------------------
(* Instances of ServiceConfig for TLC, and the data of its configs on small requests. *)
EXTENDS ServiceConfig, ConfigData, TLC

OneOfEach == [k \in FaultKinds |-> 1]
NoFaults == [k \in FaultKinds |-> 0]

AnyKinds == SUBSET Kinds
HostOnly == {{"host"}}

Symmetry == Permutations(Calls)

---------------------------------------------------------------------------
(* Requests with ports below, in and above a small range *)

Trimmed == [t \in {" tcp "} |-> "tcp"]
Ports == {-1, 0, 1, 2, 3}
Ranges == {<<>>} \cup {<<[low |-> l, high |-> h]>> : l, h \in Ports}
Lists == {<<>>, <<"tcp">>, <<" tcp ", "tcp">>, <<"tcp", " ">>}

SomeHosts ==
    [protocol : Texts, address : {"", "tcp", " tcp "}, port : Ports,
     forwardProtocol : BOOLEAN, forwardAddress : BOOLEAN, forwardPort : BOOLEAN,
     allowedProtocols : Lists, allowedAddresses : {<<>>, <<"">>, <<" tcp ">>},
     allowedPortRanges : {<<>>, <<[low |-> 1, high |-> 2]>>, <<[low |-> 2, high |-> 1]>>}]

SomeIntercepts == [protocols : Lists, addresses : Lists, portRanges : Ranges]

\* The theorems of ServiceConfigProofs on these requests.
ASSUME ConfigDataIsUsable ==
    /\ \A v \in SomeHosts :
          /\ HostOK(v) => LET d == WrittenHost(fromProtoHostV1Config(v))
                          IN HostIsUsable(d) /\ HostIsAsked(v, d)
          /\ HostIsPlain(v) => HostOK(v)
    /\ \A v \in SomeIntercepts :
          InterceptOK(v) => InterceptIsUsable(fromProtoInterceptV1Config(v))
=============================================================================
