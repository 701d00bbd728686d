-------------------------- MODULE MCConsentExchange -------------------------
(***************************************************************************)
(* Finite instances of ConsentExchange for TLC: settings that differ from  *)
(* an ordinary one in what the consent flow looks at.                      *)
(***************************************************************************)
EXTENDS ConsentExchange

Of(method, place, credential, proxy) ==
    [method |-> method, place |-> place, credential |-> credential, proxy |-> proxy]
Plain == Of("none", "plain", "absent", "absent")
Ordinary ==
    [ecosystem |-> TRUE, chain |-> FALSE, providerPermits |-> TRUE, consumerPermits |-> TRUE,
     source |-> Plain, target |-> Of("apiKey", "userId", "stored", "absent"),
     api |-> FALSE, apiAnswer |-> Plain, userKnown |-> TRUE]

Targets ==
    {Of(m, p, "stored", "credential") : m \in {"basic", "apiKey"}, p \in {"plain", "userId", "url"}}
      \cup {Plain, Of("other", "plain", "absent", "absent"), Of("basic", "plain", "unknown", "open")}
MCSettings ==
    {Ordinary, [Ordinary EXCEPT !.ecosystem = FALSE, !.consumerPermits = FALSE],
     [Ordinary EXCEPT !.providerPermits = FALSE], [Ordinary EXCEPT !.consumerPermits = FALSE],
     [Ordinary EXCEPT !.chain = TRUE], [Ordinary EXCEPT !.api = TRUE],
     [Ordinary EXCEPT !.target.place = "url", !.userKnown = FALSE]}
      \cup {[Ordinary EXCEPT !.source = s] :
               s \in {Of("basic", "url", "stored", "open"), Of("apiKey", "userId", "unknown", "absent")}}
      \cup {[Ordinary EXCEPT !.target = t, !.ecosystem = FALSE] : t \in Targets}
=============================================================================
