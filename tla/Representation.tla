--------------------------- MODULE Representation ---------------------------
(***************************************************************************)
(* The requests a connector makes to an application of its participant,    *)
(* from the representation that the self-description of a resource gives:  *)
(* a method of authentication, a URL, a credential and a proxy.            *)
(*                                                                         *)
(* An operator answers the request that is sent, or that nothing is sent,  *)
(* or that the code throws before it sends anything.  Bodies and the       *)
(* headers of a service chain are left out.                                *)
(***************************************************************************)

Methods == {"none", "basic", "apiKey"}

\* place: does the URL hold {userId}, {url}, or neither?  credential: is one
\* named, and is it stored?  proxy: none, or one with or without a credential
\* of type "proxy".
RepresentationType ==
    [method : Methods \cup {"other"}, place : {"plain", "userId", "url"},
     credential : {"absent", "unknown", "stored"},
     proxy : {"absent", "open", "credential"}]

NoRequest(why) == [verb |-> why, auth |-> "none", headers |-> {}, via |-> "direct"]
Throws == NoRequest("throws")
Nothing == NoRequest("nothing")
Answers == {Throws, Nothing}
RequestType ==
    [verb : {"GET", "POST", "PUT"}, auth : {"none", "body", "header"},
     headers : SUBSET {"consent", "exchange"},
     via : {"direct", "proxy", "authenticatedProxy"}]

\* What identifies the consent and the exchange, when the caller hands them over.
HeaderProcessing(consented, exchanged) ==
    (IF consented THEN {"consent"} ELSE {}) \cup (IF exchanged THEN {"exchange"} ELSE {})

ProxyProcessing(proxy) ==
    IF proxy = "absent" THEN "direct"
    ELSE IF proxy = "open" THEN "proxy" ELSE "authenticatedProxy"

\* A credential is only looked up where a method needs one, and used unchecked.
HasCredential(rep) == rep.credential = "stored"
Request(rep, verb, auth, headers) ==
    [verb |-> verb, auth |-> auth, headers |-> headers, via |-> ProxyProcessing(rep.proxy)]

WithCredential(rep, request) == IF HasCredential(rep) THEN request ELSE Throws

PostRepresentation(rep, headers) ==
    IF rep.method = "none" THEN Request(rep, "POST", "none", headers)
    ELSE IF rep.method = "basic" THEN WithCredential(rep, Request(rep, "POST", "body", headers))
    ELSE IF rep.method = "apiKey" THEN WithCredential(rep, Request(rep, "POST", "header", headers))
    ELSE Nothing

\* The user name and the password of the basic method are commented out.
PutRepresentation(rep, headers) ==
    IF rep.method \in {"none", "basic"} THEN Request(rep, "PUT", "none", headers)
    ELSE IF rep.method = "apiKey" THEN WithCredential(rep, Request(rep, "PUT", "header", headers))
    ELSE Nothing

\* There is no case for the basic method: it reads nothing.
GetRepresentation(rep, headers) ==
    IF rep.method = "none" THEN Request(rep, "GET", "none", headers)
    ELSE IF rep.method = "apiKey" THEN WithCredential(rep, Request(rep, "GET", "header", headers))
    ELSE Nothing

\* The URL decides: {userId} is a PUT, {url} a POST to the address of a user that
\* the connector must know, anything else the verb; without a place in the URL the
\* consent is not handed over.
PostOrPutRepresentation(rep, verb, userKnown) ==
    LET headers == HeaderProcessing(rep.place # "plain", TRUE) IN
    IF rep.place = "userId" \/ (rep.place = "plain" /\ verb = "PUT")
    THEN PutRepresentation(rep, headers)
    ELSE IF rep.place = "url" /\ ~userKnown THEN Throws
    ELSE PostRepresentation(rep, headers)
=============================================================================
