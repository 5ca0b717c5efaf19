----------------------------- MODULE ConfigData -----------------------------
(***************************************************************************)
(* What a CreateService or UpdateService request says about the host.v1    *)
(* and intercept.v1 configs of a service, from its validation to the data  *)
(* that is written to the controller.                                      *)
(*                                                                         *)
(* A text is Empty, Blank (only spaces), or a word with or without spaces  *)
(* around it.  Each part of the destination of a host.v1 config (protocol, *)
(* address, port) is fixed, or forwarded within an allow list.             *)
(***************************************************************************)
EXTENDS Integers, Sequences

CONSTANTS
    Words,              \* texts without spaces around them
    Padded,             \* the same texts with spaces around them
    WordOf,             \* the word in each padded text
    Empty, Blank,       \* a text without symbols, and one of spaces only
    maxPort

ASSUME TextsAssumption ==
    WordOf \in [Padded -> Words] /\ {Empty, Blank} \cap (Words \cup Padded) = {}
    /\ Words \cap Padded = {}
ASSUME MaxPortAssumption == maxPort \in Nat \ {0}

Texts == Words \cup Padded \cup {Empty, Blank}
PortRanges == [low : Int, high : Int]

HostRequests ==
    [protocol : Texts, address : Texts, port : Int,
     forwardProtocol : BOOLEAN, forwardAddress : BOOLEAN, forwardPort : BOOLEAN,
     allowedProtocols : Seq(Texts), allowedAddresses : Seq(Texts),
     allowedPortRanges : Seq(PortRanges)]

InterceptRequests ==
    [protocols : Seq(Texts), addresses : Seq(Texts), portRanges : Seq(PortRanges)]

---------------------------------------------------------------------------
(* Validation                                                              *)

TrimSpace(t) == IF t \in Padded THEN WordOf[t] ELSE IF t = Blank THEN Empty ELSE t

cleanOptionalStrings(texts) == [i \in DOMAIN texts |-> TrimSpace(texts[i])]
StringsOK(texts) == \A i \in DOMAIN texts : TrimSpace(texts[i]) # Empty

InRange(port) == port > 0 /\ port <= maxPort

PortRangesOK(ranges) ==
    \A i \in DOMAIN ranges :
        /\ InRange(ranges[i].low) /\ InRange(ranges[i].high)
        /\ ranges[i].low <= ranges[i].high

\* A forwarded port is not written; only one that is too high is an error all the same.
HostOK(v) ==
    /\ TrimSpace(v.protocol) # Empty \/ v.forwardProtocol
    /\ TrimSpace(v.address) # Empty \/ v.forwardAddress
    /\ IF v.forwardPort THEN v.port <= maxPort ELSE InRange(v.port)
    /\ v.forwardProtocol => v.allowedProtocols # <<>>
    /\ v.forwardAddress => v.allowedAddresses # <<>>
    /\ v.forwardPort => v.allowedPortRanges # <<>>
    /\ StringsOK(v.allowedProtocols) /\ StringsOK(v.allowedAddresses)
    /\ PortRangesOK(v.allowedPortRanges)

fromProtoHostV1Config(v) ==
    [v EXCEPT !.protocol = TrimSpace(v.protocol), !.address = TrimSpace(v.address),
              !.allowedProtocols = cleanOptionalStrings(v.allowedProtocols),
              !.allowedAddresses = cleanOptionalStrings(v.allowedAddresses)]

InterceptOK(v) ==
    /\ v.protocols # <<>> /\ StringsOK(v.protocols)
    /\ v.addresses # <<>> /\ StringsOK(v.addresses)
    /\ v.portRanges # <<>> /\ PortRangesOK(v.portRanges)

fromProtoInterceptV1Config(v) ==
    [v EXCEPT !.protocols = cleanOptionalStrings(v.protocols),
              !.addresses = cleanOptionalStrings(v.addresses)]

---------------------------------------------------------------------------
(* The data of a config: a function from the keys that are written          *)

Forwards == {"forwardProtocol", "forwardAddress", "forwardPort"}

\* A part is written, or that it is forwarded.
hostV1ConfigKeys(d) ==
    {IF d.forwardProtocol THEN "forwardProtocol" ELSE "protocol",
     IF d.forwardAddress THEN "forwardAddress" ELSE "address",
     IF d.forwardPort THEN "forwardPort" ELSE "port"}

\* An allow list is written whenever there is one.
AllowLists(d) ==
    {key \in {"allowedProtocols", "allowedAddresses", "allowedPortRanges"} : d[key] # <<>>}

WrittenHost(d) ==
    [key \in hostV1ConfigKeys(d) \cup AllowLists(d) |-> IF key \in Forwards THEN TRUE ELSE d[key]]

---------------------------------------------------------------------------
(* Properties of what is written                                           *)

GoodStrings(texts) == texts # <<>> /\ \A i \in DOMAIN texts : texts[i] \in Words
GoodRanges(ranges) ==
    /\ ranges # <<>>
    /\ \A i \in DOMAIN ranges :
          1 <= ranges[i].low /\ ranges[i].low <= ranges[i].high /\ ranges[i].high <= maxPort

\* Each part of the destination comes from one place, a fixed value or an allow list,
\* and neither is missing, blank or out of range.
HostIsUsable(data) ==
    /\ IF "forwardProtocol" \in DOMAIN data
       THEN /\ "protocol" \notin DOMAIN data /\ "allowedProtocols" \in DOMAIN data
            /\ GoodStrings(data["allowedProtocols"])
       ELSE "protocol" \in DOMAIN data /\ data["protocol"] \in Words
    /\ IF "forwardAddress" \in DOMAIN data
       THEN /\ "address" \notin DOMAIN data /\ "allowedAddresses" \in DOMAIN data
            /\ GoodStrings(data["allowedAddresses"])
       ELSE "address" \in DOMAIN data /\ data["address"] \in Words
    /\ IF "forwardPort" \in DOMAIN data
       THEN /\ "port" \notin DOMAIN data /\ "allowedPortRanges" \in DOMAIN data
            /\ GoodRanges(data["allowedPortRanges"])
       ELSE "port" \in DOMAIN data /\ data["port"] \in 1..maxPort

InterceptIsUsable(d) ==
    GoodStrings(d.protocols) /\ GoodStrings(d.addresses) /\ GoodRanges(d.portRanges)

SameList(data, key, list) ==
    IF list = <<>> THEN key \notin DOMAIN data
    ELSE key \in DOMAIN data /\ DOMAIN data[key] = DOMAIN list

\* Exactly the parts that the request forwards are forwarded, with all of its lists.
HostIsAsked(v, data) ==
    /\ v.forwardProtocol <=> "forwardProtocol" \in DOMAIN data
    /\ v.forwardAddress <=> "forwardAddress" \in DOMAIN data
    /\ v.forwardPort <=> "forwardPort" \in DOMAIN data
    /\ SameList(data, "allowedProtocols", v.allowedProtocols)
    /\ SameList(data, "allowedAddresses", v.allowedAddresses)
    /\ SameList(data, "allowedPortRanges", v.allowedPortRanges)

\* Every part of the request is good, whether it is used or not.
HostIsPlain(v) ==
    /\ TrimSpace(v.protocol) \in Words /\ TrimSpace(v.address) \in Words
    /\ v.port \in 1..maxPort
    /\ GoodStrings(cleanOptionalStrings(v.allowedProtocols))
    /\ GoodStrings(cleanOptionalStrings(v.allowedAddresses))
    /\ GoodRanges(v.allowedPortRanges)
=============================================================================
