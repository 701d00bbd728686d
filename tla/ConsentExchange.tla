--------------------------- MODULE ConsentExchange --------------------------
(***************************************************************************)
(* A data exchange that a user's consent triggers.  The consent manager    *)
(* posts the signed consent to the provider; the provider creates both     *)
(* records and attaches a token to the consent; the manager hands the      *)
(* consent with that token to the consumer, which asks the provider for    *)
(* the data with it; the provider has the token validated, checks its      *)
(* policy, reads the data and posts it to the consumer, which decrypts the *)
(* consent, checks its own policy and hands the data to its application.   *)
(*                                                                         *)
(* A handler calls the next one and does nothing of consequence with the   *)
(* answer, so one exchange is one thread of control that passes from       *)
(* connector to connector; the triggers of one consent interleave with     *)
(* each other, with its revocation and with new signature keys.  A call    *)
(* may be lost, or its answer; a connector that crashes takes the handlers *)
(* it runs with it and is restarted.                                       *)
(*                                                                         *)
(* The consent manager is external: it validates the token it was last     *)
(* given for a consent that is granted.                                    *)
(***************************************************************************)
EXTENDS Naturals, Representation

CONSTANTS
    Exchanges,   \* triggers of one consent
    Settings,    \* what the consent and the catalogue may say
    MaxFaults,   \* bound: failed calls and crashes in one behaviour
    MaxKeys      \* bound: signature keys written by hand in one behaviour

VARIABLES
    setting,     \* what they do say
    granted,     \* is the consent granted?
    attached,    \* the exchange whose token the consent holds
    pem,         \* pem[k]: the manager's signature key in the files of connector k
    status,      \* status[k][x]: the status in the record of connector k
    h,           \* h[x]: the handler that works on exchange x
    validated,   \* exchanges whose token the manager has validated
    delivered,   \* delivered[x]: the request that the consumer's application got
    answered,    \* exchanges whose answer the provider's own API got
    keys, faults \* keys written and faults so far

vars == <<setting, granted, attached, pem, status, h, validated, delivered,
          answered, keys, faults>>

-----------------------------------------------------------------------------
(* Data *)

Connectors == {"consumer", "provider"}
Other(k) == IF k = "consumer" THEN "provider" ELSE "consumer"
NoExchange == "none"

\* ecosystem: is the contract one of an ecosystem?  chain: does it come with
\* infrastructure services?  source, target: the representations of the data and
\* of the software; api: does the software answer to the provider's API, whose
\* representation is apiAnswer?  userKnown: does the consumer know the user?
Setting ==
    [ecosystem : BOOLEAN, chain : BOOLEAN, providerPermits : BOOLEAN,
     consumerPermits : BOOLEAN, source : RepresentationType, target : RepresentationType,
     api : BOOLEAN, apiAnswer : RepresentationType, userKnown : BOOLEAN]
ASSUME SettingsAssumption == Settings \subseteq Setting
ASSUME ExchangesAssumption == NoExchange \notin Exchanges
ASSUME BoundsAssumption == MaxFaults \in Nat /\ MaxKeys \in Nat

Outcomes == {"PEP_ERROR", "CONSENT_EXPORT_ERROR", "CONSENT_IMPORT_ERROR", "IMPORT_SUCCESS"}
Statuses == Outcomes \cup {"absent", "PENDING"}

ProviderStates == {"receive", "create", "sync", "attach", "export", "validate", "pep",
                   "read", "hand", "send"}
ConsumerStates == {"request", "import", "verify", "deliver", "answer"}
UpdateStates == {"put", "save"}
Ends == {"idle", "handed", "ended"}
\* at: the connector whose updateStatus is under way; caught: in its catch block?
\* data: did reading the resource give anything?
Handler ==
    [pc : ProviderStates \cup ConsumerStates \cup UpdateStates \cup {"relay"} \cup Ends,
     at : Connectors, want : Outcomes, caught : BOOLEAN, data : BOOLEAN]
IdleHandler ==
    [pc |-> "idle", at |-> "provider", want |-> "CONSENT_EXPORT_ERROR",
     caught |-> FALSE, data |-> FALSE]

TypeOK ==
    /\ setting \in Settings
    /\ granted \in BOOLEAN
    /\ attached \in Exchanges \cup {NoExchange}
    /\ pem \in [Connectors -> {"none", "current", "stale"}]
    /\ status \in [Connectors -> [Exchanges -> Statuses]]
    /\ h \in [Exchanges -> Handler]
    /\ validated \subseteq Exchanges /\ answered \subseteq Exchanges
    /\ delivered \in [Exchanges -> RequestType \cup Answers]
    /\ keys \in 0..MaxKeys /\ faults \in 0..MaxFaults

Init ==
    /\ setting \in Settings
    /\ granted = TRUE
    /\ attached = NoExchange
    /\ pem \in [Connectors -> {"none", "current"}]
    /\ status = [k \in Connectors |-> [x \in Exchanges |-> "absent"]]
    /\ h = [x \in Exchanges |-> IdleHandler]
    /\ validated = {} /\ answered = {}
    /\ delivered = [x \in Exchanges |-> Nothing]
    /\ keys = 0 /\ faults = 0

records == <<status, validated, delivered, answered>>
consent == <<setting, granted, attached, keys>>

At(x, pc) == h[x].pc = pc
To(x, pc) == h' = [h EXCEPT ![x].pc = pc]
Fault == faults < MaxFaults /\ faults' = faults + 1
NoFault == UNCHANGED faults
WithStatus(k, x, want) == [status EXCEPT ![k][x] = want]

\* updateStatus(want) at connector k: PUT to the peer, then save.
UpdateStatus(x, k, want) ==
    h' = [h EXCEPT ![x].pc = "put", ![x].at = k, ![x].want = want]
\* Variant: the provider's catch records the outcome of the other flow.
CatchBilateral(x, k) ==
    h' = [h EXCEPT ![x].pc = "put", ![x].at = k, ![x].caught = TRUE,
                   ![x].want = IF k = "provider" THEN "PROVIDER_EXPORT_ERROR"
                               ELSE "CONSENT_IMPORT_ERROR"]
Catch(x, k) ==
    h' = [h EXCEPT ![x].pc = "put", ![x].at = k, ![x].caught = TRUE,
                   ![x].want = IF k = "provider" THEN "CONSENT_EXPORT_ERROR"
                               ELSE "CONSENT_IMPORT_ERROR"]

\* decryptSignedConsent at k: without a key the connector logs in at the manager
\* and fetches it; with one that is not the manager's the consent is unreadable.
Decrypts(k, goes, fails) ==
    \/ pem[k] # "stale" /\ NoFault /\ pem' = [pem EXCEPT ![k] = "current"] /\ goes
    \/ pem[k] = "stale" /\ NoFault /\ UNCHANGED pem /\ fails
    \/ pem[k] = "none" /\ Fault /\ UNCHANGED pem /\ fails

-----------------------------------------------------------------------------
(* The provider receives the consent *)

\* The manager exports the consent to the provider.
Trigger(x) ==
    /\ At(x, "idle") /\ granted
    /\ To(x, "receive")
    /\ UNCHANGED <<consent, pem, records, faults>>

\* When the consent cannot be read the manager's call is never answered.
ExportConsent(x) ==
    /\ At(x, "receive")
    /\ Decrypts("provider",
                To(x, "create") /\ status' = WithStatus("provider", x, "PENDING"),
                To(x, "ended") /\ UNCHANGED status)
    /\ UNCHANGED <<consent, validated, delivered, answered>>

\* The manager has its answer.  The consumer creates its record and tells the
\* provider its id before it answers; the provider saves that id again.
CreateDataExchangeToOtherParticipant(x) ==
    /\ At(x, "create")
    /\ \/ /\ NoFault /\ status' = WithStatus("consumer", x, "PENDING")
          /\ To(x, IF setting.ecosystem /\ setting.chain THEN "sync" ELSE "attach")
       \/ /\ Fault /\ status' \in {status, WithStatus("consumer", x, "PENDING")}
          /\ To(x, "ended")
    /\ UNCHANGED <<consent, pem, validated, delivered, answered>>

\* The services of the chain get a copy; one that cannot be reached ends it all.
SyncWithInfrastructure(x) ==
    /\ At(x, "sync")
    /\ \/ NoFault /\ To(x, "attach")
       \/ Fault /\ To(x, "ended")
    /\ UNCHANGED <<consent, pem, records>>

PostAccessToken(x) ==
    /\ At(x, "attach")
    /\ \/ NoFault /\ attached' = x /\ To(x, "relay")
       \/ Fault /\ UNCHANGED attached /\ To(x, "ended")
    /\ UNCHANGED <<setting, granted, keys, pem, records>>

-----------------------------------------------------------------------------
(* The manager, and the consumer asks for the data *)

\* The consent that the consumer gets holds this token and the provider's record.
Relay(x) ==
    /\ At(x, "relay")
    /\ \/ NoFault /\ To(x, "request")
       \/ Fault /\ To(x, "ended")
    /\ UNCHANGED <<consent, pem, records>>

ImportConsent(x) ==
    /\ At(x, "request")
    /\ \/ NoFault /\ To(x, "export")
       \/ Fault /\ To(x, "ended")
    /\ UNCHANGED <<consent, pem, records>>

-----------------------------------------------------------------------------
(* The provider exports the data *)

ExportData(x) ==
    /\ At(x, "export")
    /\ Decrypts("provider", To(x, "validate"), To(x, "ended"))
    /\ UNCHANGED <<consent, records>>

Verified(x) == granted /\ attached = x
\* Variant: whatever the manager answers, the export goes on.
ValidateUnchecked(x) ==
    /\ At(x, "validate")
    /\ Decrypts("provider",
                /\ validated' = IF Verified(x) THEN validated \cup {x} ELSE validated
                /\ To(x, "pep"),
                Catch(x, "provider") /\ UNCHANGED validated)
    /\ UNCHANGED <<consent, status, delivered, answered>>
\* Variant: a refusal ends the handler, and no record tells it.
ValidateSilently(x) ==
    /\ At(x, "validate")
    /\ Decrypts("provider",
                IF Verified(x) THEN validated' = validated \cup {x} /\ To(x, "pep")
                ELSE UNCHANGED validated /\ To(x, "ended"),
                Catch(x, "provider") /\ UNCHANGED validated)
    /\ UNCHANGED <<consent, status, delivered, answered>>
ValidateConsent(x) ==
    /\ At(x, "validate")
    /\ \/ Decrypts("provider",
                   IF Verified(x) THEN validated' = validated \cup {x} /\ To(x, "pep")
                   ELSE UNCHANGED validated /\ Catch(x, "provider"),
                   Catch(x, "provider") /\ UNCHANGED validated)
       \/ /\ pem["provider"] = "current" /\ Fault
          /\ Catch(x, "provider") /\ UNCHANGED <<pem, validated>>
    /\ UNCHANGED <<consent, status, delivered, answered>>

ExportPep(x) ==
    /\ At(x, "pep")
    /\ \/ NoFault /\ setting.providerPermits /\ To(x, "read")
       \/ NoFault /\ ~setting.providerPermits /\ UpdateStatus(x, "provider", "PEP_ERROR")
       \/ Fault /\ Catch(x, "provider")
    /\ UNCHANGED <<consent, pem, records>>

\* The chain of a consent is only kept for the contract of an ecosystem.
ExportRead(x) ==
    /\ At(x, "read")
    /\ LET request == GetRepresentation(setting.source, HeaderProcessing(TRUE, TRUE)) IN
       \/ /\ NoFault /\ request # Throws
          /\ h' = [h EXCEPT ![x].pc = IF setting.ecosystem /\ setting.chain THEN "hand" ELSE "send",
                            ![x].data = request # Nothing]
       \/ NoFault /\ request = Throws /\ Catch(x, "provider")
       \/ Fault /\ Catch(x, "provider")
    /\ UNCHANGED <<consent, pem, records>>

\* From here on the nodes of the chain have the exchange.
TriggerInfrastructureFlow(x) ==
    /\ At(x, "hand")
    /\ \/ NoFault /\ To(x, "handed")
       \/ Fault /\ Catch(x, "provider")
    /\ UNCHANGED <<consent, pem, records>>

\* The consumer refuses a call without data; the provider goes on as if it had not,
\* and counts no use, whatever the consumer answers: the answer it tests for is
\* wrapped in another one.
TriggerGenericFlow(x) ==
    /\ At(x, "send")
    /\ \/ NoFault /\ h[x].data /\ To(x, "import")
       \/ NoFault /\ ~h[x].data /\ To(x, "ended")
       \/ Fault /\ To(x, "ended")
    /\ UNCHANGED <<consent, pem, records>>

-----------------------------------------------------------------------------
(* The consumer imports the data *)

ImportData(x) ==
    /\ At(x, "import")
    /\ Decrypts("consumer", To(x, "verify"), To(x, "ended"))
    /\ UNCHANGED <<consent, records>>

\* The contract between two parties is the provider's business alone.
ImportPep(x) ==
    /\ At(x, "verify")
    /\ \/ NoFault /\ (setting.ecosystem => setting.consumerPermits) /\ To(x, "deliver")
       \/ /\ NoFault /\ setting.ecosystem /\ ~setting.consumerPermits
          /\ UpdateStatus(x, "consumer", "PEP_ERROR")
       \/ setting.ecosystem /\ Fault /\ Catch(x, "consumer")
    /\ UNCHANGED <<consent, pem, records>>

GoesOn(x) ==
    IF setting.api THEN To(x, "answer") ELSE UpdateStatus(x, "consumer", "IMPORT_SUCCESS")
ToApplication == PostOrPutRepresentation(setting.target, "", setting.userKnown)
\* Variant: an error of the application goes unnoticed.
DeliverAnyhow(x) ==
    /\ At(x, "deliver")
    /\ \/ NoFault /\ delivered' = [delivered EXCEPT ![x] = ToApplication] /\ GoesOn(x)
       \/ Fault /\ UNCHANGED delivered /\ GoesOn(x)
    /\ UNCHANGED <<consent, pem, status, validated, answered>>
ImportDeliver(x) ==
    /\ At(x, "deliver")
    /\ \/ /\ NoFault /\ ToApplication # Throws
          /\ delivered' = [delivered EXCEPT ![x] = ToApplication] /\ GoesOn(x)
       \/ NoFault /\ ToApplication = Throws /\ UNCHANGED delivered /\ Catch(x, "consumer")
       \/ /\ Fault /\ ToApplication \notin Answers
          /\ delivered' \in {delivered, [delivered EXCEPT ![x] = ToApplication]}
          /\ Catch(x, "consumer")
    /\ UNCHANGED <<consent, pem, status, validated, answered>>

\* The provider delivers the answer to its own API, but finds no record for it and
\* fails on that: to the consumer the import has failed, whatever became of it.
ApiGets ==
    /\ ToApplication # Nothing
    /\ setting.ecosystem => setting.consumerPermits
    /\ PostOrPutRepresentation(setting.apiAnswer, "", TRUE) \notin Answers
ImportAnswer(x) ==
    /\ At(x, "answer")
    /\ \/ Decrypts("provider",
                   answered' = (IF ApiGets THEN answered \cup {x} ELSE answered)
                     /\ Catch(x, "consumer"),
                   UNCHANGED answered /\ Catch(x, "consumer"))
       \/ /\ pem["provider"] = "current" /\ Fault
          /\ Catch(x, "consumer") /\ UNCHANGED <<pem, answered>>
    /\ UNCHANGED <<consent, status, validated, delivered>>

-----------------------------------------------------------------------------
(* updateStatus *)

\* Variant: what fails is recorded on this side alone, whatever the peer was told.
PutStatusOneSided(x) ==
    /\ At(x, "put")
    /\ LET told == WithStatus(Other(h[x].at), x, h[x].want) IN
       \/ NoFault /\ status' = told /\ To(x, "save")
       \/ /\ Fault /\ status' \in {status, told}
          /\ h' = [h EXCEPT ![x].pc = "save", ![x].want = "CONSENT_IMPORT_ERROR"]
    /\ UNCHANGED <<consent, pem, validated, delivered, answered>>

\* A PUT that fails throws; what throws in the catch block ends the handler.
PutStatus(x) ==
    /\ At(x, "put")
    /\ LET told == WithStatus(Other(h[x].at), x, h[x].want) IN
       \/ NoFault /\ status' = told /\ To(x, "save")
       \/ /\ Fault /\ status' \in {status, told}
          /\ IF h[x].caught THEN To(x, "ended") ELSE Catch(x, h[x].at)
    /\ UNCHANGED <<consent, pem, validated, delivered, answered>>

SaveStatus(x) ==
    /\ At(x, "save")
    /\ status' = WithStatus(h[x].at, x, h[x].want)
    /\ To(x, "ended")
    /\ UNCHANGED <<consent, pem, validated, delivered, answered, faults>>
-----------------------------------------------------------------------------
(* What else happens *)

Revoke ==
    /\ granted /\ granted' = FALSE
    /\ UNCHANGED <<setting, attached, keys, pem, records, h, faults>>

\* A new key comes with a request on the configuration, right or wrong.
UpdateConsentKey(k, key) ==
    /\ keys < MaxKeys /\ keys' = keys + 1
    /\ pem' = [pem EXCEPT ![k] = key]
    /\ UNCHANGED <<setting, granted, attached, records, h, faults>>

RunsAt(x, k) ==
    \/ k = "provider" /\ h[x].pc \in ProviderStates
    \/ k = "consumer" /\ h[x].pc \in ConsumerStates
    \/ h[x].pc \in UpdateStates /\ h[x].at = k
Crash(k) ==
    /\ Fault
    /\ h' = [x \in Exchanges |-> IF RunsAt(x, k) THEN [h[x] EXCEPT !.pc = "ended"] ELSE h[x]]
    /\ UNCHANGED <<consent, pem, records>>

ProviderStep(x) ==
    \/ ExportConsent(x) \/ CreateDataExchangeToOtherParticipant(x)
    \/ SyncWithInfrastructure(x) \/ PostAccessToken(x)
    \/ ExportData(x) \/ ValidateConsent(x) \/ ExportPep(x) \/ ExportRead(x)
    \/ TriggerInfrastructureFlow(x) \/ TriggerGenericFlow(x)
ConsumerStep(x) ==
    \/ ImportConsent(x) \/ ImportData(x) \/ ImportPep(x)
    \/ ImportDeliver(x) \/ ImportAnswer(x)
UpdateStep(x) == PutStatus(x) \/ SaveStatus(x)
Step(x) == ProviderStep(x) \/ Relay(x) \/ ConsumerStep(x) \/ UpdateStep(x)

Next ==
    \/ \E x \in Exchanges : Trigger(x) \/ Step(x)
    \/ Revoke
    \/ \E k \in Connectors : \E key \in {"current", "stale"} : UpdateConsentKey(k, key)
    \/ \E k \in Connectors : Crash(k)

Spec == Init /\ [][Next]_vars
\* A handler whose call is answered, or fails, goes on; nobody has to trigger.
FairSpec == Spec /\ \A x \in Exchanges : WF_vars(Step(x))

-----------------------------------------------------------------------------
(* Properties *)

Got(x) == delivered[x] \notin Answers

\* The consumer's application, and the provider's API, get data only for a token
\* that the manager validated while it was the consent's last one and the consent
\* was granted, and only where both policies permit: whatever is revoked, triggered
\* again, lost or restarted meanwhile.
ConsentedDelivery ==
    \A x \in Exchanges : Got(x) \/ x \in answered =>
        /\ x \in validated
        /\ setting.providerPermits
        /\ setting.ecosystem => setting.consumerPermits

\* A record of either side says IMPORT_SUCCESS only once the consumer's application
\* has the data, with the credential that the representation asks for, provided
\* that its method is known and it is not the basic method of a PUT.
SuccessMeansDelivered ==
    \A x \in Exchanges, k \in Connectors :
        status[k][x] = "IMPORT_SUCCESS" /\ setting.target.method \in Methods =>
            /\ Got(x)
            /\ setting.target.method # "none"
                 /\ ~(setting.target.method = "basic" /\ setting.target.place = "userId")
                   => delivered[x].auth # "none"

\* An exchange that the manager triggers ends with the same outcome in both records,
\* though the consent be revoked or triggered again on the way: unless a call fails,
\* a connector crashes, a consent cannot be read, the resource gives nothing, or a
\* chain takes over.
Excused ==
    \/ faults > 0
    \/ \E k \in Connectors : pem[k] = "stale"
    \/ setting.source.method \notin {"none", "apiKey"}
    \/ setting.ecosystem /\ setting.chain
Agreed(x) == status["provider"][x] \in Outcomes /\ status["consumer"][x] = status["provider"][x]
EveryTriggerIsDecided == \A x \in Exchanges : At(x, "receive") ~> (Agreed(x) \/ Excused)

\* What the user, the applications and the records see of the exchanges of one
\* consent behaves as ConsentOutcome says, whatever is lost or crashes.
Permitted == setting.providerPermits /\ (setting.ecosystem => setting.consumerPermits)

Outcome == INSTANCE ConsentOutcome
             WITH permitted <- Permitted, known <- setting.target.method \in Methods,
                  holder <- attached, record <- status,
                  got <- {x \in Exchanges : Got(x)}, replied <- answered

ImplementsOutcome == Outcome!Spec
=============================================================================
