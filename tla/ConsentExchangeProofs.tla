----------------------- MODULE ConsentExchangeProofs ------------------------
(***************************************************************************)
(* Proofs about ConsentExchange, for every set of triggers, every setting  *)
(* and every number of faults and keys: its type, and that data reaches an *)
(* application only with a validated consent and past both policies, and a *)
(* success is recorded only for data that was delivered.                   *)
(*                                                                         *)
(* What a handler has passed shows in how far it is (PassedChecks); what   *)
(* a record says follows from what its handler was about to write          *)
(* (GroundedSuccess).                                                      *)
(***************************************************************************)
EXTENDS ConsentExchange, TLAPS

AfterValidation == {"pep", "read", "hand", "send", "import", "verify", "deliver", "answer"}
AfterExportPep == AfterValidation \ {"pep"}
AfterImportPep == {"deliver", "answer"}

\* A handler that is past a check has passed it.
PassedChecks ==
    \A x \in Exchanges :
        /\ h[x].pc \in AfterValidation => x \in validated
        /\ h[x].pc \in AfterExportPep => setting.providerPermits
        /\ h[x].pc \in AfterImportPep /\ setting.ecosystem => setting.consumerPermits

\* The application gets the request that the setting calls for, or none.
DeliveredAsSet == \A x \in Exchanges : delivered[x] \in {Nothing, ToApplication}

\* What SuccessMeansDelivered asks of one exchange.
Grounded(x) ==
    setting.target.method \in Methods =>
        /\ Got(x)
        /\ setting.target.method # "none"
             /\ ~(setting.target.method = "basic" /\ setting.target.place = "userId")
               => delivered[x].auth # "none"
GroundedSuccess ==
    \A x \in Exchanges :
        /\ h[x].pc \in UpdateStates /\ h[x].want = "IMPORT_SUCCESS" => Grounded(x)
        /\ \A k \in Connectors : status[k][x] = "IMPORT_SUCCESS" => Grounded(x)

IInv ==
    /\ TypeOK
    /\ PassedChecks
    /\ ConsentedDelivery
    /\ DeliveredAsSet
    /\ GroundedSuccess

-----------------------------------------------------------------------------
(* Requests *)

LEMMA RequestTyped ==
    ASSUME NEW rep \in RepresentationType, NEW verb \in {"GET", "POST", "PUT"},
           NEW auth \in {"none", "body", "header"}, NEW hs \in SUBSET {"consent", "exchange"}
    PROVE  /\ Request(rep, verb, auth, hs) \in RequestType
           /\ Request(rep, verb, auth, hs).auth = auth
<1>1. ProxyProcessing(rep.proxy) \in {"direct", "proxy", "authenticatedProxy"}
  BY DEF ProxyProcessing, RepresentationType
<1> QED
  BY <1>1 DEF Request, RequestType

LEMMA AnswersAreNoRequests == \A r \in RequestType : r \notin Answers
  BY DEF RequestType, Answers, Throws, Nothing, NoRequest

LEMMA AnswersDiffer == Throws # Nothing
  BY DEF Throws, Nothing, NoRequest

\* A POST is typed; with a known method it is sent or throws, and carries the
\* credential its method asks for.
LEMMA PostTyped ==
    ASSUME NEW rep \in RepresentationType, NEW hs \in SUBSET {"consent", "exchange"}
    PROVE  /\ PostRepresentation(rep, hs) \in RequestType \cup Answers
           /\ rep.method \in Methods => PostRepresentation(rep, hs) \in RequestType \cup {Throws}
           /\ rep.method \in Methods \ {"none"} /\ PostRepresentation(rep, hs) # Throws
                => PostRepresentation(rep, hs).auth # "none"
<1>1. rep.method \in {"none", "basic", "apiKey", "other"}
  BY DEF RepresentationType, Methods
<1>2. CASE rep.method = "none"
  <2>1. PostRepresentation(rep, hs) = Request(rep, "POST", "none", hs)
    BY <1>2 DEF PostRepresentation, WithCredential
  <2> QED
    BY <1>2, <2>1, RequestTyped
<1>3. CASE rep.method \in {"basic", "apiKey"} /\ HasCredential(rep)
  <2>1. \E auth \in {"body", "header"} : PostRepresentation(rep, hs) = Request(rep, "POST", auth, hs)
    BY <1>3 DEF PostRepresentation, WithCredential
  <2> QED
    BY <2>1, RequestTyped
<1>4. CASE rep.method \in {"basic", "apiKey"} /\ ~HasCredential(rep)
  <2>1. PostRepresentation(rep, hs) = Throws
    BY <1>4 DEF PostRepresentation, WithCredential
  <2> QED
    BY <2>1 DEF Answers
<1>5. CASE rep.method = "other"
  <2>1. PostRepresentation(rep, hs) = Nothing
    BY <1>5 DEF PostRepresentation, WithCredential
  <2> QED
    BY <1>5, <2>1 DEF Answers, Methods
<1> QED
  BY <1>1, <1>2, <1>3, <1>4, <1>5

\* A PUT likewise, but for the basic method, which sends no credential.
LEMMA PutTyped ==
    ASSUME NEW rep \in RepresentationType, NEW hs \in SUBSET {"consent", "exchange"}
    PROVE  /\ PutRepresentation(rep, hs) \in RequestType \cup Answers
           /\ rep.method \in Methods => PutRepresentation(rep, hs) \in RequestType \cup {Throws}
           /\ rep.method = "apiKey" /\ PutRepresentation(rep, hs) # Throws
                => PutRepresentation(rep, hs).auth # "none"
<1>1. rep.method \in {"none", "basic", "apiKey", "other"}
  BY DEF RepresentationType, Methods
<1>2. CASE rep.method \in {"none", "basic"}
  <2>1. PutRepresentation(rep, hs) = Request(rep, "PUT", "none", hs)
    BY <1>2 DEF PutRepresentation, WithCredential
  <2> QED
    BY <1>2, <2>1, RequestTyped
<1>3. CASE rep.method = "apiKey" /\ HasCredential(rep)
  <2>1. PutRepresentation(rep, hs) = Request(rep, "PUT", "header", hs)
    BY <1>3 DEF PutRepresentation, WithCredential
  <2> QED
    BY <2>1, RequestTyped
<1>4. CASE rep.method = "apiKey" /\ ~HasCredential(rep)
  <2>1. PutRepresentation(rep, hs) = Throws
    BY <1>4 DEF PutRepresentation, WithCredential
  <2> QED
    BY <2>1 DEF Answers
<1>5. CASE rep.method = "other"
  <2>1. PutRepresentation(rep, hs) = Nothing
    BY <1>5 DEF PutRepresentation, WithCredential
  <2> QED
    BY <1>5, <2>1 DEF Answers, Methods
<1> QED
  BY <1>1, <1>2, <1>3, <1>4, <1>5

\* What a request without a verb comes down to, by the place in its URL.
LEMMA ToApplicationIs ==
    ASSUME setting \in Setting
    PROVE  \/ /\ setting.target.place = "userId"
              /\ ToApplication = PutRepresentation(setting.target, {"consent", "exchange"})
           \/ /\ setting.target.place # "userId"
              /\ \/ ToApplication = Throws
                 \/ \E hs \in SUBSET {"consent", "exchange"} :
                       ToApplication = PostRepresentation(setting.target, hs)
<1>1. setting.target.place \in {"plain", "userId", "url"}
  BY DEF Setting, RepresentationType
<1>2. HeaderProcessing(TRUE, TRUE) = {"consent", "exchange"}
      /\ HeaderProcessing(FALSE, TRUE) \in SUBSET {"consent", "exchange"}
  BY DEF HeaderProcessing
<1>3. CASE setting.target.place = "userId"
  <2>1. ToApplication = PutRepresentation(setting.target, HeaderProcessing(TRUE, TRUE))
    BY <1>3 DEF ToApplication, PostOrPutRepresentation
  <2> QED
    BY <1>2, <1>3, <2>1
<1>4. CASE setting.target.place = "url"
  <2>1. ToApplication \in {Throws, PostRepresentation(setting.target, HeaderProcessing(TRUE, TRUE))}
    BY <1>4 DEF ToApplication, PostOrPutRepresentation
  <2> QED
    BY <1>2, <1>4, <2>1
<1>5. CASE setting.target.place = "plain"
  <2>1. ToApplication = PostRepresentation(setting.target, HeaderProcessing(FALSE, TRUE))
    BY <1>5 DEF ToApplication, PostOrPutRepresentation
  <2> QED
    BY <1>2, <1>5, <2>1
<1> QED
  BY <1>1, <1>3, <1>4, <1>5

LEMMA ToApplicationTyped ==
    ASSUME setting \in Setting PROVE ToApplication \in RequestType \cup Answers
<1>1. setting.target \in RepresentationType
  BY DEF Setting
<1> QED
  BY <1>1, ToApplicationIs, PostTyped, PutTyped DEF Answers

\* With a method it knows, the connector sends the request that it does not throw
\* on, and the credential with it, except for the basic method of a PUT.
LEMMA ToApplicationSends ==
    ASSUME setting \in Setting, setting.target.method \in Methods, ToApplication # Throws
    PROVE  /\ ToApplication \notin Answers
           /\ setting.target.method # "none"
                /\ ~(setting.target.method = "basic" /\ setting.target.place = "userId")
                  => ToApplication.auth # "none"
<1>1. setting.target \in RepresentationType
  BY DEF Setting
<1>2. CASE setting.target.place = "userId"
  <2>1. ToApplication = PutRepresentation(setting.target, {"consent", "exchange"})
    BY <1>2, ToApplicationIs
  <2> QED
    BY <1>1, <1>2, <2>1, PutTyped, AnswersAreNoRequests DEF Methods
<1>3. CASE setting.target.place # "userId"
  <2>1. PICK hs \in SUBSET {"consent", "exchange"} :
            ToApplication = PostRepresentation(setting.target, hs)
    BY <1>3, ToApplicationIs
  <2> QED
    BY <1>1, <1>3, <2>1, PostTyped, AnswersAreNoRequests DEF Methods
<1> QED
  BY <1>2, <1>3

-----------------------------------------------------------------------------
(* What every step of a handler does *)

EnvironmentTyped ==
    /\ granted \in BOOLEAN
    /\ attached \in Exchanges \cup {NoExchange}
    /\ pem \in [Connectors -> {"none", "current", "stale"}]
    /\ keys \in 0..MaxKeys /\ faults \in 0..MaxFaults

\* It moves one handler, which may write the status it is about to write, deliver
\* the data or the answer, and have its token validated.
Local(x) ==
    /\ setting' = setting
    /\ EnvironmentTyped'
    /\ \E n \in Handler : h' = [h EXCEPT ![x] = n]
    /\ \/ status' = status
       \/ \E k \in Connectors : status' = WithStatus(k, x, "PENDING")
       \/ \E k \in Connectors : h[x].pc \in UpdateStates /\ status' = WithStatus(k, x, h[x].want)
    /\ validated' \in {validated, validated \cup {x}}
    /\ \/ delivered' = delivered
       \/ h[x].pc = "deliver" /\ delivered' = [delivered EXCEPT ![x] = ToApplication]
    /\ \/ answered' = answered
       \/ h[x].pc = "answer" /\ answered' = answered \cup {x}

\* A handler gets past a check by passing it, and comes to write a success by
\* delivering the data.
Advances(x) ==
    /\ h'[x].pc \in AfterValidation => h[x].pc \in AfterValidation \/ x \in validated'
    /\ h'[x].pc \in AfterExportPep => h[x].pc \in AfterExportPep \/ setting.providerPermits
    /\ h'[x].pc \in AfterImportPep /\ setting.ecosystem =>
         h[x].pc \in AfterImportPep \/ setting.consumerPermits
    /\ h'[x].pc \in UpdateStates /\ h'[x].want = "IMPORT_SUCCESS" =>
         \/ h[x].pc \in UpdateStates /\ h[x].want = "IMPORT_SUCCESS"
         \/ delivered'[x] = ToApplication /\ ToApplication # Throws

LEMMA FaultTyped ==
    ASSUME faults \in 0..MaxFaults, Fault \/ NoFault PROVE faults' \in 0..MaxFaults
  BY BoundsAssumption DEF Fault, NoFault

\* Moving a handler on, starting updateStatus and the catch block leave a handler.
LEMMA ToTyped ==
    ASSUME TypeOK, NEW x \in Exchanges,
           NEW pc \in ProviderStates \cup ConsumerStates \cup UpdateStates \cup {"relay"} \cup Ends,
           To(x, pc)
    PROVE  /\ \E n \in Handler : h' = [h EXCEPT ![x] = n]
           /\ h'[x].pc = pc /\ h'[x].want = h[x].want
<1>1. h[x] \in Handler
  BY DEF TypeOK
<1>2. [h[x] EXCEPT !.pc = pc] \in Handler
  BY <1>1 DEF Handler
<1>3. h' = [h EXCEPT ![x] = [h[x] EXCEPT !.pc = pc]]
  BY DEF To, TypeOK
<1> QED
  BY <1>1, <1>2, <1>3 DEF TypeOK, Handler

LEMMA UpdateStatusTyped ==
    ASSUME TypeOK, NEW x \in Exchanges, NEW k \in Connectors, NEW want \in Outcomes,
           UpdateStatus(x, k, want)
    PROVE  /\ \E n \in Handler : h' = [h EXCEPT ![x] = n]
           /\ h'[x].pc = "put" /\ h'[x].want = want
<1>1. h[x] \in Handler
  BY DEF TypeOK
<1>2. [h[x] EXCEPT !.pc = "put", !.at = k, !.want = want] \in Handler
  BY <1>1 DEF Handler, UpdateStates
<1>3. h' = [h EXCEPT ![x] = [h[x] EXCEPT !.pc = "put", !.at = k, !.want = want]]
  BY DEF UpdateStatus, TypeOK
<1> QED
  BY <1>1, <1>2, <1>3 DEF TypeOK, Handler

LEMMA CatchTyped ==
    ASSUME TypeOK, NEW x \in Exchanges, NEW k \in Connectors, Catch(x, k)
    PROVE  /\ \E n \in Handler : h' = [h EXCEPT ![x] = n]
           /\ h'[x].pc = "put" /\ h'[x].want # "IMPORT_SUCCESS"
<1> DEFINE want == IF k = "provider" THEN "CONSENT_EXPORT_ERROR" ELSE "CONSENT_IMPORT_ERROR"
           n == [h[x] EXCEPT !.pc = "put", !.at = k, !.caught = TRUE, !.want = want]
<1>1. h[x] \in Handler
  BY DEF TypeOK
<1>2. want \in Outcomes /\ want # "IMPORT_SUCCESS"
  BY DEF Outcomes
<1>3. n \in Handler /\ n.pc = "put" /\ n.want = want
  <2> HIDE DEF want
  <2> QED
    BY <1>1, <1>2 DEF Handler, UpdateStates
<1>4. h' = [h EXCEPT ![x] = n]
  BY DEF Catch, TypeOK
<1>5. h'[x] = n
  <2> HIDE DEF n
  <2> QED
    BY <1>4 DEF TypeOK
<1> QED
  BY <1>2, <1>3, <1>4, <1>5

LEMMA TypeFacts ==
    ASSUME TypeOK
    PROVE  EnvironmentTyped /\ h \in [Exchanges -> Handler] /\ setting \in Setting
  BY SettingsAssumption DEF TypeOK, EnvironmentTyped

USE DEF ProviderStates, ConsumerStates, UpdateStates, Ends,
        AfterValidation, AfterExportPep, AfterImportPep

-----------------------------------------------------------------------------
(* The steps of the provider *)

LEMMA TriggerStep ==
    ASSUME TypeOK, NEW x \in Exchanges, Trigger(x) PROVE Local(x) /\ Advances(x)
<1>1. EnvironmentTyped' /\ UNCHANGED <<setting, status, validated, delivered, answered>>
  BY FaultTyped, TypeFacts DEF Trigger, Decrypts, EnvironmentTyped, consent, records, Connectors
<1>2. CASE To(x, "receive")
  BY <1>1, <1>2, ToTyped DEF Local, Advances
<1> QED
  BY <1>2 DEF Trigger, Decrypts, records, At

LEMMA ExportConsentStep ==
    ASSUME TypeOK, NEW x \in Exchanges, ExportConsent(x) PROVE Local(x) /\ Advances(x)
<1>1. EnvironmentTyped' /\ UNCHANGED <<setting, validated, delivered, answered>>
  BY FaultTyped, TypeFacts DEF ExportConsent, Decrypts, EnvironmentTyped, consent, records, Connectors
<1>2. CASE To(x, "create") /\ status' = WithStatus("provider", x, "PENDING")
  BY <1>1, <1>2, ToTyped DEF Local, Advances, Connectors
<1>3. CASE To(x, "ended") /\ UNCHANGED status
  BY <1>1, <1>3, ToTyped DEF Local, Advances
<1> QED
  BY <1>2, <1>3 DEF ExportConsent, Decrypts, records, At

LEMMA CreateDataExchangeToOtherParticipantStep ==
    ASSUME TypeOK, NEW x \in Exchanges, CreateDataExchangeToOtherParticipant(x) PROVE Local(x) /\ Advances(x)
<1>1. EnvironmentTyped' /\ UNCHANGED <<setting, validated, delivered, answered>>
  BY FaultTyped, TypeFacts DEF CreateDataExchangeToOtherParticipant, Decrypts, EnvironmentTyped, consent, records, Connectors
<1>2. CASE To(x, "sync") /\ status' = WithStatus("consumer", x, "PENDING")
  BY <1>1, <1>2, ToTyped DEF Local, Advances, Connectors
<1>3. CASE To(x, "attach") /\ status' = WithStatus("consumer", x, "PENDING")
  BY <1>1, <1>3, ToTyped DEF Local, Advances, Connectors
<1>4. CASE To(x, "ended") /\ status' \in {status, WithStatus("consumer", x, "PENDING")}
  BY <1>1, <1>4, ToTyped DEF Local, Advances, Connectors
<1> QED
  BY <1>2, <1>3, <1>4 DEF CreateDataExchangeToOtherParticipant, Decrypts, records, At

LEMMA SyncWithInfrastructureStep ==
    ASSUME TypeOK, NEW x \in Exchanges, SyncWithInfrastructure(x) PROVE Local(x) /\ Advances(x)
<1>1. EnvironmentTyped' /\ UNCHANGED <<setting, status, validated, delivered, answered>>
  BY FaultTyped, TypeFacts DEF SyncWithInfrastructure, Decrypts, EnvironmentTyped, consent, records, Connectors
<1>2. CASE To(x, "attach")
  BY <1>1, <1>2, ToTyped DEF Local, Advances
<1>3. CASE To(x, "ended")
  BY <1>1, <1>3, ToTyped DEF Local, Advances
<1> QED
  BY <1>2, <1>3 DEF SyncWithInfrastructure, Decrypts, records, At

LEMMA PostAccessTokenStep ==
    ASSUME TypeOK, NEW x \in Exchanges, PostAccessToken(x) PROVE Local(x) /\ Advances(x)
<1>1. EnvironmentTyped' /\ UNCHANGED <<setting, status, validated, delivered, answered>>
  BY FaultTyped, TypeFacts DEF PostAccessToken, Decrypts, EnvironmentTyped, consent, records, Connectors
<1>2. CASE To(x, "relay")
  BY <1>1, <1>2, ToTyped DEF Local, Advances
<1>3. CASE To(x, "ended")
  BY <1>1, <1>3, ToTyped DEF Local, Advances
<1> QED
  BY <1>2, <1>3 DEF PostAccessToken, Decrypts, records, At

LEMMA ExportDataStep ==
    ASSUME TypeOK, NEW x \in Exchanges, ExportData(x) PROVE Local(x) /\ Advances(x)
<1>1. EnvironmentTyped' /\ UNCHANGED <<setting, status, validated, delivered, answered>>
  BY FaultTyped, TypeFacts DEF ExportData, Decrypts, EnvironmentTyped, consent, records, Connectors
<1>2. CASE To(x, "validate")
  BY <1>1, <1>2, ToTyped DEF Local, Advances
<1>3. CASE To(x, "ended")
  BY <1>1, <1>3, ToTyped DEF Local, Advances
<1> QED
  BY <1>2, <1>3 DEF ExportData, Decrypts, records, At

LEMMA ValidateConsentStep ==
    ASSUME TypeOK, NEW x \in Exchanges, ValidateConsent(x) PROVE Local(x) /\ Advances(x)
<1>1. EnvironmentTyped' /\ UNCHANGED <<setting, status, delivered, answered>>
  BY FaultTyped, TypeFacts DEF ValidateConsent, Decrypts, EnvironmentTyped, consent, records, Connectors
<1>2. CASE validated' = validated \cup {x} /\ To(x, "pep")
  BY <1>1, <1>2, ToTyped DEF Local, Advances
<1>3. CASE UNCHANGED validated /\ Catch(x, "provider")
  BY <1>1, <1>3, CatchTyped DEF Local, Advances, Connectors
<1> QED
  BY <1>2, <1>3 DEF ValidateConsent, Decrypts, records, At

LEMMA ExportPepStep ==
    ASSUME TypeOK, NEW x \in Exchanges, ExportPep(x) PROVE Local(x) /\ Advances(x)
<1>1. EnvironmentTyped' /\ UNCHANGED <<setting, status, validated, delivered, answered>>
  BY FaultTyped, TypeFacts DEF ExportPep, Decrypts, EnvironmentTyped, consent, records, Connectors
<1>2. CASE At(x, "pep") /\ setting.providerPermits /\ To(x, "read")
  BY <1>1, <1>2, ToTyped DEF Local, Advances, At
<1>3. CASE UpdateStatus(x, "provider", "PEP_ERROR")
  BY <1>1, <1>3, UpdateStatusTyped DEF Local, Advances, Outcomes, Connectors
<1>4. CASE Catch(x, "provider")
  BY <1>1, <1>4, CatchTyped DEF Local, Advances, Connectors
<1> QED
  BY <1>2, <1>3, <1>4 DEF ExportPep, Decrypts, records, At

LEMMA TriggerInfrastructureFlowStep ==
    ASSUME TypeOK, NEW x \in Exchanges, TriggerInfrastructureFlow(x) PROVE Local(x) /\ Advances(x)
<1>1. EnvironmentTyped' /\ UNCHANGED <<setting, status, validated, delivered, answered>>
  BY FaultTyped, TypeFacts DEF TriggerInfrastructureFlow, Decrypts, EnvironmentTyped, consent, records, Connectors
<1>2. CASE At(x, "hand") /\ To(x, "handed")
  BY <1>1, <1>2, ToTyped DEF Local, Advances, At
<1>3. CASE Catch(x, "provider")
  BY <1>1, <1>3, CatchTyped DEF Local, Advances, Connectors
<1> QED
  BY <1>2, <1>3 DEF TriggerInfrastructureFlow, Decrypts, records, At

LEMMA TriggerGenericFlowStep ==
    ASSUME TypeOK, NEW x \in Exchanges, TriggerGenericFlow(x) PROVE Local(x) /\ Advances(x)
<1>1. EnvironmentTyped' /\ UNCHANGED <<setting, status, validated, delivered, answered>>
  BY FaultTyped, TypeFacts DEF TriggerGenericFlow, Decrypts, EnvironmentTyped, consent, records, Connectors
<1>2. CASE At(x, "send") /\ To(x, "import")
  BY <1>1, <1>2, ToTyped DEF Local, Advances, At
<1>3. CASE To(x, "ended")
  BY <1>1, <1>3, ToTyped DEF Local, Advances
<1> QED
  BY <1>2, <1>3 DEF TriggerGenericFlow, Decrypts, records, At

-----------------------------------------------------------------------------
(* The steps of the manager and the consumer *)

LEMMA RelayStep ==
    ASSUME TypeOK, NEW x \in Exchanges, Relay(x) PROVE Local(x) /\ Advances(x)
<1>1. EnvironmentTyped' /\ UNCHANGED <<setting, status, validated, delivered, answered>>
  BY FaultTyped, TypeFacts DEF Relay, Decrypts, EnvironmentTyped, consent, records, Connectors
<1>2. CASE To(x, "request")
  BY <1>1, <1>2, ToTyped DEF Local, Advances
<1>3. CASE To(x, "ended")
  BY <1>1, <1>3, ToTyped DEF Local, Advances
<1> QED
  BY <1>2, <1>3 DEF Relay, Decrypts, records, At

LEMMA ImportConsentStep ==
    ASSUME TypeOK, NEW x \in Exchanges, ImportConsent(x) PROVE Local(x) /\ Advances(x)
<1>1. EnvironmentTyped' /\ UNCHANGED <<setting, status, validated, delivered, answered>>
  BY FaultTyped, TypeFacts DEF ImportConsent, Decrypts, EnvironmentTyped, consent, records, Connectors
<1>2. CASE To(x, "export")
  BY <1>1, <1>2, ToTyped DEF Local, Advances
<1>3. CASE To(x, "ended")
  BY <1>1, <1>3, ToTyped DEF Local, Advances
<1> QED
  BY <1>2, <1>3 DEF ImportConsent, Decrypts, records, At

LEMMA ImportDataStep ==
    ASSUME TypeOK, NEW x \in Exchanges, ImportData(x) PROVE Local(x) /\ Advances(x)
<1>1. EnvironmentTyped' /\ UNCHANGED <<setting, status, validated, delivered, answered>>
  BY FaultTyped, TypeFacts DEF ImportData, Decrypts, EnvironmentTyped, consent, records, Connectors
<1>2. CASE At(x, "import") /\ To(x, "verify")
  BY <1>1, <1>2, ToTyped DEF Local, Advances, At
<1>3. CASE To(x, "ended")
  BY <1>1, <1>3, ToTyped DEF Local, Advances
<1> QED
  BY <1>2, <1>3 DEF ImportData, Decrypts, records, At

LEMMA ImportPepStep ==
    ASSUME TypeOK, NEW x \in Exchanges, ImportPep(x) PROVE Local(x) /\ Advances(x)
<1>1. EnvironmentTyped' /\ UNCHANGED <<setting, status, validated, delivered, answered>>
  BY FaultTyped, TypeFacts DEF ImportPep, Decrypts, EnvironmentTyped, consent, records, Connectors
<1>2. CASE At(x, "verify") /\ (setting.ecosystem => setting.consumerPermits) /\ To(x, "deliver")
  BY <1>1, <1>2, ToTyped DEF Local, Advances, At
<1>3. CASE UpdateStatus(x, "consumer", "PEP_ERROR")
  BY <1>1, <1>3, UpdateStatusTyped DEF Local, Advances, Outcomes, Connectors
<1>4. CASE Catch(x, "consumer")
  BY <1>1, <1>4, CatchTyped DEF Local, Advances, Connectors
<1> QED
  BY <1>2, <1>3, <1>4 DEF ImportPep, Decrypts, records, At

LEMMA ImportAnswerStep ==
    ASSUME TypeOK, NEW x \in Exchanges, ImportAnswer(x) PROVE Local(x) /\ Advances(x)
<1>1. EnvironmentTyped' /\ UNCHANGED <<setting, status, validated, delivered>>
  BY FaultTyped, TypeFacts DEF ImportAnswer, Decrypts, EnvironmentTyped, consent, records, Connectors
<1>2. CASE At(x, "answer") /\ answered' \in {answered, answered \cup {x}} /\ Catch(x, "consumer")
  BY <1>1, <1>2, CatchTyped DEF Local, Advances, Connectors, At
<1> QED
  BY <1>2 DEF ImportAnswer, Decrypts, records, At

LEMMA ImportDeliverStep ==
    ASSUME TypeOK, NEW x \in Exchanges, ImportDeliver(x) PROVE Local(x) /\ Advances(x)
<1>1. EnvironmentTyped' /\ UNCHANGED <<setting, status, validated, answered>>
  BY FaultTyped, TypeFacts DEF ImportDeliver, EnvironmentTyped, consent
<1>2. h[x].pc = "deliver" /\ delivered \in [Exchanges -> RequestType \cup Answers]
  BY DEF ImportDeliver, At, TypeOK
<1>3. CASE ToApplication # Throws /\ delivered' = [delivered EXCEPT ![x] = ToApplication] /\ GoesOn(x)
  <2>1. delivered'[x] = ToApplication
    BY <1>2, <1>3
  <2>2. CASE To(x, "answer")
    BY <1>1, <1>2, <1>3, <2>2, ToTyped DEF Local, Advances
  <2>3. CASE UpdateStatus(x, "consumer", "IMPORT_SUCCESS")
    BY <1>1, <1>2, <1>3, <2>1, <2>3, UpdateStatusTyped DEF Local, Advances, Outcomes, Connectors
  <2> QED
    BY <1>3, <2>2, <2>3 DEF GoesOn
<1>4. CASE /\ delivered' \in {delivered, [delivered EXCEPT ![x] = ToApplication]}
           /\ Catch(x, "consumer")
  BY <1>1, <1>2, <1>4, CatchTyped DEF Local, Advances, Connectors
<1> QED
  BY <1>3, <1>4 DEF ImportDeliver

LEMMA ExportReadStep ==
    ASSUME TypeOK, NEW x \in Exchanges, ExportRead(x) PROVE Local(x) /\ Advances(x)
<1>1. EnvironmentTyped' /\ UNCHANGED <<setting, status, validated, delivered, answered>>
  BY FaultTyped, TypeFacts DEF ExportRead, EnvironmentTyped, consent, records
<1>2. CASE Catch(x, "provider")
  BY <1>1, <1>2, CatchTyped DEF Local, Advances, Connectors
<1>3. CASE \E pc \in {"hand", "send"}, data \in BOOLEAN :
             h' = [h EXCEPT ![x].pc = pc, ![x].data = data]
  <2>1. PICK pc \in {"hand", "send"}, data \in BOOLEAN :
               h' = [h EXCEPT ![x].pc = pc, ![x].data = data]
    BY <1>3
  <2>2. h[x] \in Handler /\ h[x].pc = "read"
    BY DEF TypeOK, ExportRead, At
  <2>3. [h[x] EXCEPT !.pc = pc, !.data = data] \in Handler
    BY <2>2 DEF Handler
  <2>4. h' = [h EXCEPT ![x] = [h[x] EXCEPT !.pc = pc, !.data = data]]
    BY <2>1 DEF TypeOK
  <2>5. h'[x].pc = pc
    BY <2>1, <2>2 DEF TypeOK, Handler
  <2> QED
    BY <1>1, <2>2, <2>3, <2>4, <2>5 DEF Local, Advances
<1> QED
  BY <1>2, <1>3 DEF ExportRead

-----------------------------------------------------------------------------
(* updateStatus *)

LEMMA PutStatusStep ==
    ASSUME TypeOK, NEW x \in Exchanges, PutStatus(x) PROVE Local(x) /\ Advances(x)
<1>1. EnvironmentTyped' /\ UNCHANGED <<setting, validated, delivered, answered>>
  BY FaultTyped, TypeFacts DEF PutStatus, EnvironmentTyped, consent
<1>2. h[x].pc = "put" /\ h[x].at \in Connectors /\ Other(h[x].at) \in Connectors
  BY DEF PutStatus, At, TypeOK, Handler, Other, Connectors
<1>3. status' \in {status, WithStatus(Other(h[x].at), x, h[x].want)}
  BY DEF PutStatus
<1>4. CASE To(x, "save") \/ To(x, "ended")
  BY <1>1, <1>2, <1>3, <1>4, ToTyped DEF Local, Advances
<1>5. CASE Catch(x, h[x].at)
  BY <1>1, <1>2, <1>3, <1>5, CatchTyped DEF Local, Advances
<1> QED
  BY <1>4, <1>5 DEF PutStatus

LEMMA SaveStatusStep ==
    ASSUME TypeOK, NEW x \in Exchanges, SaveStatus(x) PROVE Local(x) /\ Advances(x)
<1>1. EnvironmentTyped' /\ UNCHANGED <<setting, validated, delivered, answered>>
  BY TypeFacts DEF SaveStatus, EnvironmentTyped, consent
<1>2. h[x].pc = "save" /\ h[x].at \in Connectors /\ status' = WithStatus(h[x].at, x, h[x].want)
  BY DEF SaveStatus, At, TypeOK, Handler
<1> QED
  BY <1>1, <1>2, ToTyped DEF SaveStatus, Local, Advances

LEMMA StepIsLocal ==
    ASSUME TypeOK, NEW x \in Exchanges, Trigger(x) \/ Step(x) PROVE Local(x) /\ Advances(x)
  BY TriggerStep, ExportConsentStep, CreateDataExchangeToOtherParticipantStep,
     SyncWithInfrastructureStep, PostAccessTokenStep, ExportDataStep, ValidateConsentStep,
     ExportPepStep, ExportReadStep, TriggerInfrastructureFlowStep, TriggerGenericFlowStep,
     RelayStep, ImportConsentStep, ImportDataStep, ImportPepStep, ImportDeliverStep,
     ImportAnswerStep, PutStatusStep, SaveStatusStep
     DEF Step, ProviderStep, ConsumerStep, UpdateStep
-----------------------------------------------------------------------------
(* The invariant holds initially and is preserved *)

LEMMA InitIInv == Init => IInv
<1> SUFFICES ASSUME Init PROVE IInv
  OBVIOUS
<1>1. IdleHandler \in Handler /\ IdleHandler.pc = "idle"
  BY DEF IdleHandler, Handler, Connectors, Outcomes
<1>2. TypeOK
  BY <1>1, BoundsAssumption DEF Init, TypeOK, Statuses, Answers
<1>3. PassedChecks
  BY <1>1 DEF Init, PassedChecks
<1>4. ConsentedDelivery /\ DeliveredAsSet
  BY DEF Init, ConsentedDelivery, DeliveredAsSet, Got, Answers
<1>5. GroundedSuccess
  BY <1>1 DEF Init, GroundedSuccess
<1> QED
  BY <1>2, <1>3, <1>4, <1>5 DEF IInv

LEMMA LocalTyped ==
    ASSUME TypeOK, NEW x \in Exchanges, Local(x) PROVE TypeOK'
<1>1. setting \in Setting /\ setting' \in Settings
  BY TypeFacts DEF TypeOK, Local
<1>2. h' \in [Exchanges -> Handler]
  BY DEF TypeOK, Local
<1>3. status' \in [Connectors -> [Exchanges -> Statuses]]
  <2>1. ASSUME NEW k \in Connectors, NEW want \in Statuses, status' = WithStatus(k, x, want)
        PROVE  status' \in [Connectors -> [Exchanges -> Statuses]]
    BY <2>1 DEF TypeOK, WithStatus
  <2>2. h[x].want \in Statuses /\ "PENDING" \in Statuses
    BY DEF TypeOK, Handler, Statuses
  <2> QED
    BY <2>1, <2>2 DEF TypeOK, Local
<1>4. delivered' \in [Exchanges -> RequestType \cup Answers]
  BY <1>1, ToApplicationTyped DEF TypeOK, Local
<1>5. validated' \subseteq Exchanges /\ answered' \subseteq Exchanges
  BY DEF TypeOK, Local
<1> QED
  BY <1>1, <1>2, <1>3, <1>4, <1>5 DEF TypeOK, Local, EnvironmentTyped

\* What Grounded says of an exchange outlasts a step: what was delivered stays.
LEMMA GroundedStays ==
    ASSUME IInv, NEW x \in Exchanges, NEW y \in Exchanges, Local(x), Grounded(y)
    PROVE  Grounded(y)'
<1>1. setting' = setting /\ (delivered'[y] = delivered[y] \/ delivered'[y] = ToApplication)
  BY DEF IInv, TypeOK, Local
<1>2. CASE delivered'[y] = delivered[y]
  BY <1>1, <1>2 DEF Grounded, Got
<1>3. CASE setting.target.method \in Methods /\ delivered'[y] # delivered[y]
  <2>1. delivered[y] \in {Nothing, ToApplication} /\ delivered[y] # Nothing
    BY <1>3 DEF IInv, DeliveredAsSet, Grounded, Got, Answers
  <2> QED
    BY <1>1, <1>3, <2>1
<1>4. CASE setting.target.method \notin Methods
  BY <1>1, <1>4 DEF Grounded
<1> QED
  BY <1>2, <1>3, <1>4

LEMMA LocalPreserves ==
    ASSUME IInv, NEW x \in Exchanges, Local(x), Advances(x) PROVE IInv'
<1>1. TypeOK /\ TypeOK' /\ setting' = setting /\ setting \in Setting
  BY LocalTyped, TypeFacts DEF IInv, Local
<1>2. \A y \in Exchanges : y # x => h'[y] = h[y]
  BY DEF IInv, TypeOK, Local
<1>3. validated \subseteq validated'
  BY DEF Local
<1>4. PassedChecks'
  <2>1. ASSUME NEW y \in Exchanges, y # x
        PROVE  /\ h'[y].pc \in AfterValidation => y \in validated'
               /\ h'[y].pc \in AfterExportPep => setting.providerPermits
               /\ h'[y].pc \in AfterImportPep /\ setting.ecosystem => setting.consumerPermits
    BY <1>2, <1>3, <2>1 DEF IInv, PassedChecks
  <2>2. /\ h'[x].pc \in AfterValidation => x \in validated'
        /\ h'[x].pc \in AfterExportPep => setting.providerPermits
        /\ h'[x].pc \in AfterImportPep /\ setting.ecosystem => setting.consumerPermits
    BY <1>3 DEF IInv, PassedChecks, Advances
  <2> QED
    BY <1>1, <2>1, <2>2 DEF PassedChecks
<1>5. ConsentedDelivery'
  <2> SUFFICES ASSUME NEW y \in Exchanges, Got(y)' \/ y \in answered'
               PROVE  /\ y \in validated' /\ setting.providerPermits
                      /\ setting.ecosystem => setting.consumerPermits
    BY <1>1 DEF ConsentedDelivery
  <2>1. CASE Got(y) \/ y \in answered
    BY <1>3, <2>1 DEF IInv, ConsentedDelivery
  <2>2. CASE ~Got(y) /\ y \notin answered
    <3>1. y = x /\ h[x].pc \in AfterImportPep
      BY <2>2 DEF IInv, TypeOK, Local, Got
    <3> QED
      BY <1>3, <3>1 DEF IInv, PassedChecks
  <2> QED
    BY <2>1, <2>2
<1>6. DeliveredAsSet'
  <2>1. ToApplication' = ToApplication
    BY <1>1 DEF ToApplication
  <2> QED
    BY <2>1 DEF IInv, TypeOK, Local, DeliveredAsSet
<1>7. GroundedSuccess'
  <2> SUFFICES ASSUME NEW y \in Exchanges
               PROVE  /\ h'[y].pc \in UpdateStates /\ h'[y].want = "IMPORT_SUCCESS" => Grounded(y)'
                      /\ \A k \in Connectors : status'[k][y] = "IMPORT_SUCCESS" => Grounded(y)'
    BY DEF GroundedSuccess
  <2>1. CASE Grounded(y)
    BY <2>1, GroundedStays
  <2>2. CASE ~Grounded(y)
    <3>1. ~(h[y].pc \in UpdateStates /\ h[y].want = "IMPORT_SUCCESS")
          /\ \A k \in Connectors : status[k][y] # "IMPORT_SUCCESS"
      BY <2>2 DEF IInv, GroundedSuccess
    <3>2. \A k \in Connectors : status'[k][y] # "IMPORT_SUCCESS"
      BY <1>1, <3>1 DEF TypeOK, Local, WithStatus
    <3>3. ASSUME h'[y].pc \in UpdateStates, h'[y].want = "IMPORT_SUCCESS" PROVE Grounded(y)'
      <4>1. y = x /\ delivered'[y] = ToApplication /\ ToApplication # Throws
        BY <1>2, <3>1, <3>3 DEF Advances
      <4> QED
        BY <1>1, <4>1, ToApplicationSends DEF Grounded, Got
    <3> QED
      BY <3>2, <3>3
  <2> QED
    BY <2>1, <2>2
<1> QED
  BY <1>1, <1>4, <1>5, <1>6, <1>7 DEF IInv

\* A step that leaves handlers alone or only ends them writes nothing.
LEMMA EndingPreserves ==
    ASSUME IInv, UNCHANGED <<setting, records>>, EnvironmentTyped',
           h' \in [Exchanges -> Handler],
           \A x \in Exchanges : h'[x] = h[x] \/ h'[x].pc = "ended"
    PROVE  IInv'
<1>1. TypeOK'
  BY DEF IInv, TypeOK, EnvironmentTyped, records
<1>2. PassedChecks'
  BY DEF IInv, PassedChecks, records
<1>3. ConsentedDelivery'
  BY DEF IInv, ConsentedDelivery, Got, records
<1>4. DeliveredAsSet'
  BY DEF IInv, DeliveredAsSet, ToApplication, records
<1>5. GroundedSuccess'
  <2>1. \A x \in Exchanges : Grounded(x)' <=> Grounded(x)
    BY DEF Grounded, Got, records
  <2> QED
    BY <2>1 DEF IInv, GroundedSuccess, records
<1> QED
  BY <1>1, <1>2, <1>3, <1>4, <1>5 DEF IInv

LEMMA NextIInv == IInv /\ [Next]_vars => IInv'
<1> SUFFICES ASSUME IInv, [Next]_vars PROVE IInv'
  OBVIOUS
<1>1. TypeOK /\ EnvironmentTyped /\ h \in [Exchanges -> Handler]
  BY TypeFacts DEF IInv
<1>2. CASE \E x \in Exchanges : Trigger(x) \/ Step(x)
  BY <1>1, <1>2, StepIsLocal, LocalPreserves
<1>3. CASE Revoke
  <2>1. UNCHANGED <<setting, records, h>> /\ EnvironmentTyped'
    BY <1>1, <1>3 DEF Revoke, EnvironmentTyped
  <2> QED
    BY <1>1, <2>1, EndingPreserves
<1>4. CASE \E k \in Connectors : \E key \in {"current", "stale"} : UpdateConsentKey(k, key)
  <2>1. UNCHANGED <<setting, records, h>> /\ EnvironmentTyped'
    BY <1>1, <1>4, BoundsAssumption DEF UpdateConsentKey, EnvironmentTyped
  <2> QED
    BY <1>1, <2>1, EndingPreserves
<1>5. CASE \E k \in Connectors : Crash(k)
  <2>1. UNCHANGED <<setting, records>> /\ EnvironmentTyped'
    BY <1>1, <1>5, FaultTyped DEF Crash, EnvironmentTyped, consent
  <2>2. \A x \in Exchanges : [h[x] EXCEPT !.pc = "ended"] \in Handler
                             /\ [h[x] EXCEPT !.pc = "ended"].pc = "ended"
    BY <1>1 DEF Handler
  <2>3. h' \in [Exchanges -> Handler] /\ \A x \in Exchanges : h'[x] = h[x] \/ h'[x].pc = "ended"
    BY <1>1, <1>5, <2>2 DEF Crash
  <2> QED
    BY <2>1, <2>3, EndingPreserves
<1>6. CASE UNCHANGED vars
  BY <1>1, <1>6, EndingPreserves DEF vars, records, EnvironmentTyped
<1> QED
  BY <1>2, <1>3, <1>4, <1>5, <1>6 DEF Next

-----------------------------------------------------------------------------
(* Theorems *)

THEOREM InvariantHolds == Spec => []IInv
<1> QED
  BY InitIInv, NextIInv, PTL DEF Spec

\* The handlers, records and keys are what the schemas say they are.
THEOREM TypeCorrect == Spec => []TypeOK
<1>1. IInv => TypeOK
  BY DEF IInv
<1> QED
  BY <1>1, InvariantHolds, PTL

\* No data reaches the consumer's application or the provider's API without a
\* validated consent and past both policies, for every number of triggers and faults.
THEOREM DeliveryIsConsented == Spec => []ConsentedDelivery
<1>1. IInv => ConsentedDelivery
  BY DEF IInv
<1> QED
  BY <1>1, InvariantHolds, PTL

\* A record says IMPORT_SUCCESS only for data that its application has.
THEOREM SuccessIsDelivered == Spec => []SuccessMeansDelivered
<1>1. IInv => SuccessMeansDelivered
  BY DEF IInv, GroundedSuccess, Grounded, SuccessMeansDelivered
<1> QED
  BY <1>1, InvariantHolds, PTL
-----------------------------------------------------------------------------
(* The records follow the handler, which the refinement needs *)

Working == (ProviderStates \cup ConsumerStates \cup {"relay"}) \ {"receive", "create"}
Failures == {"CONSENT_EXPORT_ERROR", "CONSENT_IMPORT_ERROR"}
Shows(k, x, want) == status[k][x] = want
Undecided(x) == Shows("consumer", x, "PENDING") /\ Shows("provider", x, "PENDING")
Unseen == <<setting, granted, attached, status, validated, delivered, answered>>

\* Both records are PENDING until updateStatus tells one of them an outcome; then
\* the other one is saved.
Follows(x) ==
    /\ h[x].pc \in {"idle", "receive"} => \A k \in Connectors : Shows(k, x, "absent")
    /\ h[x].pc = "create" => Shows("provider", x, "PENDING") /\ Shows("consumer", x, "absent")
    /\ h[x].pc \in Working => Undecided(x)
    /\ h[x].pc \in UpdateStates => Shows(h[x].at, x, "PENDING")
    /\ h[x].pc = "put" =>
         \/ Shows(Other(h[x].at), x, "PENDING")
         \/ status[Other(h[x].at)][x] \in Outcomes /\ h[x].want \in Failures
    /\ h[x].pc = "save" => Shows(Other(h[x].at), x, h[x].want)

\* An outcome is about to be written only where it may be; the answer of the
\* application is awaited only for a request that was sent.
Justified(x) ==
    /\ h[x].pc \in UpdateStates /\ h[x].want = "PEP_ERROR" => ~Permitted
    /\ h[x].pc \in UpdateStates /\ h[x].want = "IMPORT_SUCCESS" => x \in validated /\ Permitted
    /\ h[x].pc = "answer" => delivered[x] = ToApplication /\ ToApplication # Throws
RInv == IInv /\ \A x \in Exchanges : Follows(x) /\ Justified(x)

\* From a working state a handler goes on, or starts to write what it may.
Resumes(x) == h'[x].pc \in (Working \ {"answer"}) \cup {"handed", "ended"}
Replies(x) ==
    h'[x].pc = "answer" /\ delivered'[x] = ToApplication /\ ToApplication # Throws
Writes(x) ==
    /\ h'[x].pc = "put"
    /\ h'[x].want = "PEP_ERROR" => ~Permitted
    /\ h'[x].want = "IMPORT_SUCCESS" => x \in validated' /\ Permitted
Marches(x) ==
    /\ h[x].pc \in Working
    /\ setting' = setting /\ status' = status
    /\ Resumes(x) \/ Replies(x) \/ Writes(x)
Quiet(x) == Marches(x) /\ UNCHANGED Unseen

LEMMA MarchesFollows ==
    ASSUME TypeOK', NEW x \in Exchanges, Follows(x), Marches(x)
    PROVE  Follows(x)' /\ Justified(x)'
<1>1. Permitted' = Permitted /\ ToApplication' = ToApplication
  BY DEF Marches, Permitted, ToApplication
<1>2. h'[x].at \in Connectors /\ Other(h'[x].at) \in Connectors
  BY DEF TypeOK, Handler, Other, Connectors
<1>3. Undecided(x)' /\ \A k \in Connectors : Shows(k, x, "PENDING")'
  BY DEF Marches, Follows, Undecided, Shows, Connectors
<1>4. CASE Resumes(x)
  BY <1>3, <1>4 DEF Resumes, Follows, Justified, Working
<1>5. CASE Replies(x)
  BY <1>1, <1>3, <1>5 DEF Replies, Follows, Justified, Working
<1>6. CASE Writes(x)
  BY <1>1, <1>2, <1>3, <1>6 DEF Writes, Follows, Justified, Working
<1> QED
  BY <1>4, <1>5, <1>6 DEF Marches

\* Where a handler is, and for which connector it writes what.
LEMMA ToLeaves ==
    ASSUME TypeOK, NEW x \in Exchanges, NEW pc, To(x, pc)
    PROVE  h'[x].pc = pc /\ h'[x].at = h[x].at /\ h'[x].want = h[x].want
BY DEF TypeOK, To, Handler

LEMMA UpdateStatusWrites ==
    ASSUME TypeOK, NEW x \in Exchanges, NEW k, NEW want, UpdateStatus(x, k, want)
    PROVE  h'[x].pc = "put" /\ h'[x].at = k /\ h'[x].want = want
BY DEF TypeOK, UpdateStatus, Handler

LEMMA CatchWrites ==
    ASSUME TypeOK, NEW x \in Exchanges, NEW k \in Connectors, Catch(x, k)
    PROVE  /\ h'[x].pc = "put" /\ h'[x].at = k /\ h'[x].want \in Failures
           /\ Writes(x)
<1>1. h'[x].pc = "put" /\ h'[x].at = k /\ h'[x].want \in Failures
  BY DEF TypeOK, Catch, Handler, Failures
<1> QED
  BY <1>1 DEF Writes, Failures

-----------------------------------------------------------------------------
(* Steps that nobody sees *)

LEMMA MovesQuietly ==
    ASSUME TypeOK, NEW x \in Exchanges, NEW pc \in (Working \ {"answer"}) \cup {"handed", "ended"},
           h[x].pc \in Working, UNCHANGED Unseen, To(x, pc)
    PROVE  Quiet(x)
BY ToLeaves DEF Quiet, Marches, Resumes, Unseen

LEMMA CatchesQuietly ==
    ASSUME TypeOK, NEW x \in Exchanges, NEW k \in Connectors,
           h[x].pc \in Working, UNCHANGED Unseen, Catch(x, k)
    PROVE  Quiet(x)
BY CatchWrites DEF Quiet, Marches, Unseen

LEMMA RefusesQuietly ==
    ASSUME TypeOK, NEW x \in Exchanges, NEW k \in Connectors, ~Permitted,
           h[x].pc \in Working, UNCHANGED Unseen, UpdateStatus(x, k, "PEP_ERROR")
    PROVE  Quiet(x)
BY UpdateStatusWrites DEF Quiet, Marches, Writes, Unseen

QuietStep(x) ==
    \/ SyncWithInfrastructure(x) \/ Relay(x) \/ ImportConsent(x) \/ ExportData(x)
    \/ ExportPep(x) \/ ExportRead(x) \/ TriggerInfrastructureFlow(x)
    \/ TriggerGenericFlow(x) \/ ImportData(x) \/ ImportPep(x)
LEMMA QuietSteps ==
    ASSUME TypeOK, NEW x \in Exchanges, QuietStep(x) PROVE Quiet(x)
<1> USE DEF Working
<1>1. "consumer" \in Connectors /\ "provider" \in Connectors
  BY DEF Connectors
<1>2. CASE SyncWithInfrastructure(x)
  <2>1. h[x].pc \in Working /\ UNCHANGED Unseen
    BY <1>2 DEF SyncWithInfrastructure, At, Unseen, consent, records
  <2> QED
    BY <1>2, <2>1, MovesQuietly DEF SyncWithInfrastructure
<1>3. CASE Relay(x)
  <2>1. h[x].pc \in Working /\ UNCHANGED Unseen
    BY <1>3 DEF Relay, At, Unseen, consent, records
  <2> QED
    BY <1>3, <2>1, MovesQuietly DEF Relay
<1>4. CASE ImportConsent(x)
  <2>1. h[x].pc \in Working /\ UNCHANGED Unseen
    BY <1>4 DEF ImportConsent, At, Unseen, consent, records
  <2> QED
    BY <1>4, <2>1, MovesQuietly DEF ImportConsent
<1>5. CASE ExportData(x)
  <2>1. h[x].pc \in Working /\ UNCHANGED Unseen
    BY <1>5 DEF ExportData, At, Unseen, consent, records
  <2> QED
    BY <1>5, <2>1, MovesQuietly DEF ExportData, Decrypts
<1>6. CASE ImportData(x)
  <2>1. h[x].pc \in Working /\ UNCHANGED Unseen
    BY <1>6 DEF ImportData, At, Unseen, consent, records
  <2> QED
    BY <1>6, <2>1, MovesQuietly DEF ImportData, Decrypts
<1>7. CASE TriggerInfrastructureFlow(x)
  <2>1. h[x].pc \in Working /\ UNCHANGED Unseen
    BY <1>7 DEF TriggerInfrastructureFlow, At, Unseen, consent, records
  <2> QED
    BY <1>1, <1>7, <2>1, MovesQuietly, CatchesQuietly DEF TriggerInfrastructureFlow
<1>8. CASE TriggerGenericFlow(x)
  <2>1. h[x].pc \in Working /\ UNCHANGED Unseen
    BY <1>8 DEF TriggerGenericFlow, At, Unseen, consent, records
  <2> QED
    BY <1>8, <2>1, MovesQuietly DEF TriggerGenericFlow
<1>9. CASE ExportPep(x)
  <2>1. h[x].pc \in Working /\ UNCHANGED Unseen
    BY <1>9 DEF ExportPep, At, Unseen, consent, records
  <2>2. ~setting.providerPermits => ~Permitted
    BY DEF Permitted
  <2> QED
    BY <1>1, <1>9, <2>1, <2>2, MovesQuietly, CatchesQuietly, RefusesQuietly DEF ExportPep
<1>10. CASE ImportPep(x)
  <2>1. h[x].pc \in Working /\ UNCHANGED Unseen
    BY <1>10 DEF ImportPep, At, Unseen, consent, records
  <2>2. setting.ecosystem /\ ~setting.consumerPermits => ~Permitted
    BY DEF Permitted
  <2> QED
    BY <1>1, <1>10, <2>1, <2>2, MovesQuietly, CatchesQuietly, RefusesQuietly DEF ImportPep
<1>11. CASE ExportRead(x)
  <2>1. h[x].pc = "read" /\ UNCHANGED Unseen
    BY <1>11 DEF ExportRead, At, Unseen, consent, records
  <2>2. CASE Catch(x, "provider")
    BY <1>1, <2>1, <2>2, CatchesQuietly
  <2>3. CASE \E pc \in {"hand", "send"}, data \in BOOLEAN :
               h' = [h EXCEPT ![x].pc = pc, ![x].data = data]
    <3>1. h'[x].pc \in {"hand", "send"}
      BY <2>3 DEF TypeOK, Handler
    <3> QED
      BY <2>1, <3>1 DEF Quiet, Marches, Resumes, Unseen
  <2> QED
    BY <1>11, <2>2, <2>3 DEF ExportRead
<1> QED
  BY <1>2, <1>3, <1>4, <1>5, <1>6, <1>7, <1>8, <1>9, <1>10, <1>11 DEF QuietStep

-----------------------------------------------------------------------------
(* The abstract specification *)

LEMMA SameSets ==
    /\ Outcome!Connectors = Connectors /\ Outcome!Outcomes = Outcomes
    /\ Outcome!Failures = Failures
    /\ \A k : Outcome!Other(k) = Other(k)
    /\ \A x : Outcome!Undecided(x) <=> Undecided(x)
BY DEF Outcome!Connectors, Connectors, Outcome!Outcomes, Outcomes, Outcome!Failures, Failures,
       Outcome!Other, Other, Outcome!Undecided, Undecided, Shows

Gotten == {x \in Exchanges : Got(x)}

LEMMA UnseenStutters == ASSUME UNCHANGED Unseen PROVE UNCHANGED Outcome!vars
<1>1. Permitted' = Permitted /\ Gotten' = Gotten
  BY DEF Unseen, Permitted, Gotten, Got
<1> QED
  BY <1>1 DEF Outcome!vars, Unseen, Gotten

LEMMA InitImplements == Init => RInv /\ Outcome!Init
<1> SUFFICES ASSUME Init PROVE RInv /\ Outcome!Init
  OBVIOUS
<1>1. \A x \in Exchanges : ~Got(x) /\ h[x].pc = "idle"
  BY DEF Init, Got, Answers, IdleHandler
<1>2. setting \in Setting
  BY SettingsAssumption DEF Init
<1>3. Permitted \in BOOLEAN
  BY <1>2 DEF Permitted, Setting
<1>4. RInv
  BY <1>1, InitIInv DEF Init, RInv, Follows, Justified, Shows, Working
<1>5. Outcome!Init
  BY <1>1, <1>3 DEF Init, Outcome!Init, Outcome!Connectors, Connectors
<1> QED
  BY <1>4, <1>5

-----------------------------------------------------------------------------
(* Steps that are seen *)

\* Each is a step of ConsentOutcome, or none; and the records go on following.
Implements(x) == Follows(x)' /\ Justified(x)' /\ [Outcome!Next]_(Outcome!vars)

LEMMA QuietImplements ==
    ASSUME TypeOK', NEW x \in Exchanges, Follows(x), Quiet(x) PROVE Implements(x)
BY MarchesFollows, UnseenStutters DEF Quiet, Implements

LEMMA TriggerImplements ==
    ASSUME RInv, TypeOK', NEW x \in Exchanges, Trigger(x) PROVE Implements(x)
<1>1. h'[x].pc = "receive" /\ h[x].pc = "idle" /\ UNCHANGED Unseen
  BY ToLeaves DEF RInv, IInv, Trigger, At, Unseen, consent, records
<1>2. Follows(x)' /\ Justified(x)'
  BY <1>1 DEF RInv, Follows, Justified, Shows, Unseen, Working
<1> QED
  BY <1>1, <1>2, UnseenStutters DEF Implements

\* A record is opened.
LEMMA OpenImplements ==
    ASSUME TypeOK, NEW x \in Exchanges, NEW k \in Connectors,
           UNCHANGED <<setting, granted, attached, validated, delivered, answered>>,
           status' = WithStatus(k, x, "PENDING"), Shows(k, x, "absent"),
           k = "consumer" => Shows("provider", x, "PENDING")
    PROVE  Outcome!Next
<1>1. Permitted' = Permitted /\ Gotten' = Gotten
  BY DEF Permitted, Gotten, Got
<1>2. Outcome!Open(x, k)
  BY <1>1 DEF Outcome!Open, Outcome!terms, Outcome!consent, Outcome!data, WithStatus, Shows, Gotten
<1> QED
  BY <1>2, SameSets DEF Outcome!Next

LEMMA ExportConsentImplements ==
    ASSUME RInv, TypeOK', NEW x \in Exchanges, ExportConsent(x) PROVE Implements(x)
<1>1. /\ TypeOK /\ h[x].pc = "receive"
      /\ UNCHANGED <<setting, granted, attached, validated, delivered, answered>>
  BY DEF RInv, IInv, ExportConsent, At, consent
<1>2. \A k \in Connectors : Shows(k, x, "absent")
  BY <1>1 DEF RInv, Follows
<1>3. CASE To(x, "create") /\ status' = WithStatus("provider", x, "PENDING")
  <2>1. h'[x].pc = "create"
    BY <1>1, <1>3, ToLeaves
  <2>2. status' = [status EXCEPT !["provider"][x] = "PENDING"]
    BY <1>3 DEF WithStatus
  <2>3. Shows("provider", x, "PENDING")' /\ Shows("consumer", x, "absent")'
    BY <1>1, <1>2, <2>2 DEF TypeOK, Shows, Connectors
  <2>4. Follows(x)' /\ Justified(x)'
    BY <2>1, <2>3 DEF Follows, Justified, Working
  <2>5. Outcome!Next
    BY <1>1, <1>2, <1>3, OpenImplements DEF Connectors
  <2> QED
    BY <2>4, <2>5 DEF Implements
<1>4. CASE To(x, "ended") /\ UNCHANGED status
  <2>1. h'[x].pc = "ended"
    BY <1>1, <1>4, ToLeaves
  <2>2. Follows(x)' /\ Justified(x)'
    BY <2>1 DEF Follows, Justified, Working
  <2> QED
    BY <1>1, <1>4, <2>2, UnseenStutters DEF Implements, Unseen
<1> QED
  BY <1>3, <1>4 DEF ExportConsent, Decrypts

LEMMA CreateImplements ==
    ASSUME RInv, TypeOK', NEW x \in Exchanges, CreateDataExchangeToOtherParticipant(x)
    PROVE  Implements(x)
<1>1. /\ TypeOK /\ h[x].pc = "create"
      /\ UNCHANGED <<setting, granted, attached, validated, delivered, answered>>
  BY DEF RInv, IInv, CreateDataExchangeToOtherParticipant, At, consent
<1>2. Shows("provider", x, "PENDING") /\ Shows("consumer", x, "absent")
  BY <1>1 DEF RInv, Follows
<1>3. CASE status' = WithStatus("consumer", x, "PENDING") /\ h'[x].pc \in {"sync", "attach", "ended"}
  <2>1. status' = [status EXCEPT !["consumer"][x] = "PENDING"]
    BY <1>3 DEF WithStatus
  <2>2. Undecided(x)'
    BY <1>1, <1>2, <2>1 DEF TypeOK, Shows, Connectors, Undecided
  <2>3. Follows(x)' /\ Justified(x)'
    BY <1>3, <2>2 DEF Follows, Justified, Working
  <2>4. Outcome!Next
    BY <1>1, <1>2, <1>3, OpenImplements DEF Connectors
  <2> QED
    BY <2>3, <2>4 DEF Implements
<1>4. CASE UNCHANGED status /\ h'[x].pc = "ended"
  <2>1. Follows(x)' /\ Justified(x)'
    BY <1>4 DEF Follows, Justified, Working
  <2> QED
    BY <1>1, <1>4, <2>1, UnseenStutters DEF Implements, Unseen
<1>5. \/ h'[x].pc \in {"sync", "attach"} /\ status' = WithStatus("consumer", x, "PENDING")
      \/ h'[x].pc = "ended" /\ status' \in {status, WithStatus("consumer", x, "PENDING")}
  BY <1>1, ToLeaves DEF CreateDataExchangeToOtherParticipant
<1> QED
  BY <1>3, <1>4, <1>5

LEMMA PostAccessTokenImplements ==
    ASSUME RInv, TypeOK', NEW x \in Exchanges, PostAccessToken(x) PROVE Implements(x)
<1>1. /\ TypeOK /\ h[x].pc = "attach" /\ Follows(x)
      /\ UNCHANGED <<setting, granted, status, validated, delivered, answered>>
  BY DEF RInv, IInv, PostAccessToken, At, records
<1>2. h'[x].pc \in {"relay", "ended"}
  BY <1>1, ToLeaves DEF PostAccessToken
<1>3. Follows(x)' /\ Justified(x)'
  BY <1>1, <1>2, MarchesFollows DEF Marches, Resumes, Working
<1>4. Permitted' = Permitted /\ Gotten' = Gotten /\ Undecided(x)
  BY <1>1 DEF Permitted, Gotten, Got, Follows, Working
<1>5. CASE attached' = x
  <2>1. Outcome!Attach(x)
    BY <1>1, <1>4, <1>5, SameSets
       DEF Outcome!Attach, Outcome!terms, Outcome!data, Gotten
  <2> QED
    BY <1>3, <2>1 DEF Implements, Outcome!Next
<1>6. CASE UNCHANGED attached
  BY <1>1, <1>3, <1>6, UnseenStutters DEF Implements, Unseen
<1> QED
  BY <1>5, <1>6 DEF PostAccessToken

LEMMA ValidateConsentImplements ==
    ASSUME RInv, TypeOK', NEW x \in Exchanges, ValidateConsent(x) PROVE Implements(x)
<1>1. /\ TypeOK /\ h[x].pc = "validate" /\ Follows(x)
      /\ UNCHANGED <<setting, granted, attached, status, delivered, answered>>
  BY DEF RInv, IInv, ValidateConsent, At, consent
<1>2. CASE Verified(x) /\ validated' = validated \cup {x} /\ To(x, "pep")
  <2>1. h'[x].pc = "pep"
    BY <1>1, <1>2, ToLeaves
  <2>2. Follows(x)' /\ Justified(x)'
    BY <1>1, <2>1, MarchesFollows DEF Marches, Resumes, Working
  <2>3. Permitted' = Permitted /\ Gotten' = Gotten /\ Undecided(x)
    BY <1>1 DEF Permitted, Gotten, Got, Follows, Working
  <2>4. Outcome!Validate(x)
    BY <1>1, <1>2, <2>3, SameSets
       DEF Outcome!Validate, Outcome!terms, Outcome!data, Gotten, Verified
  <2> QED
    BY <2>2, <2>4 DEF Implements, Outcome!Next
<1>3. CASE UNCHANGED validated /\ Catch(x, "provider")
  <2>1. Quiet(x)
    BY <1>1, <1>3, CatchesQuietly DEF Unseen, Working, Connectors
  <2> QED
    BY <1>1, <2>1, QuietImplements
<1> QED
  BY <1>2, <1>3 DEF ValidateConsent, Decrypts

LEMMA ImportDeliverImplements ==
    ASSUME RInv, TypeOK', NEW x \in Exchanges, ImportDeliver(x) PROVE Implements(x)
<1>1. /\ TypeOK /\ h[x].pc = "deliver" /\ Follows(x)
      /\ UNCHANGED <<setting, granted, attached, status, validated, answered>>
  BY DEF RInv, IInv, ImportDeliver, At, consent
<1>2. x \in validated /\ Permitted
  BY <1>1 DEF RInv, IInv, PassedChecks, Permitted
<1>3. /\ delivered' \in {delivered, [delivered EXCEPT ![x] = ToApplication]}
      /\ Replies(x) \/ Writes(x)
  <2>1. CASE ToApplication # Throws
             /\ delivered' = [delivered EXCEPT ![x] = ToApplication] /\ GoesOn(x)
    <3>1. delivered'[x] = ToApplication
      BY <1>1, <2>1 DEF TypeOK
    <3>2. CASE To(x, "answer")
      BY <1>1, <2>1, <3>1, <3>2, ToLeaves DEF Replies
    <3>3. CASE UpdateStatus(x, "consumer", "IMPORT_SUCCESS")
      BY <1>1, <1>2, <2>1, <3>3, UpdateStatusWrites DEF Writes
    <3> QED
      BY <2>1, <3>2, <3>3 DEF GoesOn
  <2>2. CASE /\ delivered' \in {delivered, [delivered EXCEPT ![x] = ToApplication]}
             /\ Catch(x, "consumer")
    BY <1>1, <2>2, CatchWrites DEF Connectors
  <2> QED
    BY <2>1, <2>2 DEF ImportDeliver
<1>4. Follows(x)' /\ Justified(x)'
  BY <1>1, <1>3, MarchesFollows DEF Marches, Working
<1>5. Gotten' = Gotten \/ Gotten' = Gotten \cup {x}
  <2>1. CASE delivered' = delivered
    BY <2>1 DEF Gotten, Got
  <2>2. CASE delivered' = [delivered EXCEPT ![x] = ToApplication] /\ delivered[x] \notin Answers
    <3>1. delivered'[x] = ToApplication /\ delivered[x] = ToApplication
      BY <1>1, <2>2 DEF RInv, IInv, DeliveredAsSet, Answers, TypeOK
    <3>2. \A y \in Exchanges : delivered'[y] = delivered[y]
      BY <1>1, <2>2, <3>1 DEF TypeOK
    <3> QED
      BY <3>2 DEF Gotten, Got
  <2>3. CASE delivered' = [delivered EXCEPT ![x] = ToApplication] /\ delivered[x] \in Answers
    <3>1. delivered'[x] = ToApplication /\ \A y \in Exchanges \ {x} : delivered'[y] = delivered[y]
      BY <1>1, <2>3 DEF TypeOK
    <3>2. CASE ToApplication \in Answers
      BY <2>3, <3>1, <3>2 DEF Gotten, Got
    <3>3. CASE ToApplication \notin Answers
      BY <2>3, <3>1, <3>3 DEF Gotten, Got
    <3> QED
      BY <3>2, <3>3
  <2> QED
    BY <1>3, <2>1, <2>2, <2>3
<1>6. Permitted' = Permitted /\ Undecided(x)
  BY <1>1 DEF Permitted, Follows, Working
<1>7. CASE Gotten' = Gotten \cup {x}
  <2>1. Outcome!Deliver(x)
    BY <1>1, <1>2, <1>6, <1>7, SameSets
       DEF Outcome!Deliver, Outcome!terms, Outcome!consent, Gotten
  <2> QED
    BY <1>4, <2>1 DEF Implements, Outcome!Next
<1>8. CASE Gotten' = Gotten
  BY <1>1, <1>4, <1>6, <1>8 DEF Implements, Outcome!vars, Gotten
<1> QED
  BY <1>5, <1>7, <1>8

LEMMA ImportAnswerImplements ==
    ASSUME RInv, TypeOK', NEW x \in Exchanges, ImportAnswer(x) PROVE Implements(x)
<1>1. /\ TypeOK /\ h[x].pc = "answer" /\ Follows(x)
      /\ UNCHANGED <<setting, granted, attached, status, validated, delivered>>
  BY DEF RInv, IInv, ImportAnswer, At, consent
<1>2. /\ answered' \in {answered, IF ApiGets THEN answered \cup {x} ELSE answered}
      /\ Catch(x, "consumer")
  BY DEF ImportAnswer, Decrypts
<1>3. Follows(x)' /\ Justified(x)'
  BY <1>1, <1>2, CatchWrites, MarchesFollows DEF Marches, Working, Connectors
<1>4. Permitted' = Permitted /\ Gotten' = Gotten /\ Undecided(x)
  BY <1>1 DEF Permitted, Gotten, Got, Follows, Working
<1>5. CASE ApiGets /\ answered' = answered \cup {x}
  <2>1. x \in Gotten
    BY <1>1, <1>5 DEF RInv, Justified, ApiGets, Gotten, Got, Answers
  <2>2. Outcome!Reply(x)
    BY <1>1, <1>4, <1>5, <2>1, SameSets
       DEF Outcome!Reply, Outcome!terms, Outcome!consent, Gotten
  <2> QED
    BY <1>3, <2>2 DEF Implements, Outcome!Next
<1>6. CASE UNCHANGED answered
  BY <1>1, <1>3, <1>6, UnseenStutters DEF Implements, Unseen
<1> QED
  BY <1>2, <1>5, <1>6

-----------------------------------------------------------------------------
(* updateStatus *)

LEMMA WithStatusAt ==
    ASSUME TypeOK, NEW k \in Connectors, NEW x \in Exchanges, NEW want,
           NEW l \in Connectors, NEW y \in Exchanges
    PROVE  WithStatus(k, x, want)[l][y] = IF l = k /\ y = x THEN want ELSE status[l][y]
BY DEF TypeOK, WithStatus

LEMMA PutStatusImplements ==
    ASSUME RInv, TypeOK', NEW x \in Exchanges, PutStatus(x) PROVE Implements(x)
<1> DEFINE k == h[x].at
           p == Other(h[x].at)
           want == h[x].want
<1>1. /\ TypeOK /\ h[x].pc = "put" /\ Follows(x) /\ Justified(x)
      /\ UNCHANGED <<setting, granted, attached, validated, delivered, answered>>
  BY DEF RInv, IInv, PutStatus, At, consent
<1>2. k \in Connectors /\ p \in Connectors /\ p # k /\ Other(p) = k /\ want \in Outcomes
  BY <1>1 DEF TypeOK, Handler, Connectors, Other
<1>3. /\ Shows(k, x, "PENDING")
      /\ Shows(p, x, "PENDING") \/ (status[p][x] \in Outcomes /\ want \in Failures)
  BY <1>1 DEF Follows
<1>4. ASSUME status' = WithStatus(p, x, want) PROVE Outcome!Next
  <2>1. status' = [status EXCEPT ![p][x] = want]
    BY <1>4 DEF WithStatus
  <2>2. want = "IMPORT_SUCCESS" => x \in validated /\ Permitted
                                   /\ (setting.target.method \in Methods => x \in Gotten)
    BY <1>1 DEF RInv, IInv, Justified, GroundedSuccess, Grounded, Gotten
  <2>3. Permitted' = Permitted /\ Gotten' = Gotten /\ (want = "PEP_ERROR" => ~Permitted)
    BY <1>1 DEF Permitted, Gotten, Got, Justified
  <2>4. Outcome!Announce(x, p, want)
    <3> HIDE DEF k, p, want
    <3>1. Shows(p, x, "PENDING") \/ status[p][x] \in Outcomes
      BY <1>3
    <3> QED
      BY <1>1, <1>2, <1>3, <2>1, <2>2, <2>3, SameSets
         DEF Outcome!Announce, Outcome!terms, Outcome!consent, Outcome!data, Gotten, Shows, Outcomes
  <2> QED
    BY <1>2, <2>4, SameSets DEF Outcome!Next
<1>5. status' \in {status, WithStatus(p, x, want)}
  BY DEF PutStatus
<1>6. ASSUME UNCHANGED status PROVE UNCHANGED Outcome!vars
  BY <1>1, <1>6, UnseenStutters DEF Unseen
<1>7. /\ status'[k][x] = "PENDING"
      /\ status'[p][x] = want \/ status'[p][x] = status[p][x]
      /\ status' = WithStatus(p, x, want) => status'[p][x] = want
  <2>1. WithStatus(p, x, want)[p][x] = want /\ WithStatus(p, x, want)[k][x] = status[k][x]
    <3> HIDE DEF k, p, want
    <3> QED
      BY <1>1, <1>2, WithStatusAt
  <2> HIDE DEF k, p, want
  <2> QED
    BY <1>3, <1>5, <2>1 DEF Shows
<1>8. CASE status' = WithStatus(p, x, want) /\ To(x, "save")
  <2>1. h'[x].pc = "save" /\ h'[x].at = k /\ h'[x].want = want
    BY <1>1, <1>8, ToLeaves
  <2>2. h'[x].at = k /\ status'[k][x] = "PENDING" /\ status'[p][x] = want
    BY <1>7, <1>8, <2>1
  <2>3. Follows(x)'
    BY <2>1, <2>2 DEF Follows, Shows, Working
  <2>4. Justified(x)'
    BY <1>1, <2>1 DEF Justified, Permitted
  <2> QED
    BY <2>3, <2>4, <1>8, <1>4 DEF Implements
<1>9. CASE To(x, "ended")
  <2>1. h'[x].pc = "ended"
    BY <1>1, <1>9, ToLeaves
  <2> QED
    BY <2>1, <1>4, <1>5, <1>6 DEF Follows, Justified, Working, Implements
<1>10. CASE Catch(x, k)
  <2>1. h'[x].pc = "put" /\ h'[x].at = k /\ h'[x].want \in Failures
    BY <1>1, <1>2, <1>10, CatchWrites
  <2>2. status'[p][x] = "PENDING" \/ status'[p][x] \in Outcomes
    <3> HIDE DEF k, p, want
    <3> QED
      BY <1>2, <1>3, <1>7 DEF Shows
  <2>3. Follows(x)'
    BY <1>7, <2>1, <2>2 DEF Follows, Shows, Working
  <2>4. Justified(x)'
    BY <2>1 DEF Justified, Failures
  <2> QED
    BY <2>3, <2>4, <1>4, <1>5, <1>6 DEF Implements
<1> QED
  BY <1>8, <1>9, <1>10 DEF PutStatus

LEMMA SaveStatusImplements ==
    ASSUME RInv, TypeOK', NEW x \in Exchanges, SaveStatus(x) PROVE Implements(x)
<1> DEFINE k == h[x].at
           want == h[x].want
<1>1. /\ TypeOK /\ h[x].pc = "save" /\ Follows(x)
      /\ UNCHANGED <<setting, granted, attached, validated, delivered, answered>>
      /\ status' = [status EXCEPT ![k][x] = want]
  BY DEF RInv, IInv, SaveStatus, At, consent, WithStatus
<1>2. k \in Connectors /\ want \in Outcomes
  BY <1>1 DEF TypeOK, Handler
<1>3. h'[x].pc = "ended"
  BY <1>1, ToLeaves DEF SaveStatus
<1>4. Follows(x)' /\ Justified(x)'
  BY <1>3 DEF Follows, Justified, Working
<1>5. Shows(k, x, "PENDING") /\ Shows(Other(k), x, want)
  BY <1>1 DEF Follows
<1>6. Permitted' = Permitted /\ Gotten' = Gotten
  BY <1>1 DEF Permitted, Gotten, Got
<1>7. Outcome!Settle(x, k)
  <2> HIDE DEF k, want
  <2> QED
    BY <1>1, <1>2, <1>5, <1>6, SameSets
       DEF Outcome!Settle, Outcome!terms, Outcome!consent, Outcome!data, Gotten, Shows
<1> QED
  BY <1>2, <1>4, <1>7, SameSets DEF Implements, Outcome!Next

-----------------------------------------------------------------------------
(* Every step *)

LEMMA StepImplements ==
    ASSUME RInv, TypeOK', NEW x \in Exchanges, Trigger(x) \/ Step(x) PROVE Implements(x)
<1>1. CASE QuietStep(x)
  BY <1>1, QuietSteps, QuietImplements DEF RInv, IInv
<1> QED
  BY <1>1, TriggerImplements, ExportConsentImplements, CreateImplements,
     PostAccessTokenImplements, ValidateConsentImplements, ImportDeliverImplements,
     ImportAnswerImplements, PutStatusImplements, SaveStatusImplements
     DEF Step, ProviderStep, ConsumerStep, UpdateStep, QuietStep

\* The step of one exchange leaves the records of the others with their handlers.
LEMMA OthersFollow ==
    ASSUME RInv, NEW x \in Exchanges, NEW y \in Exchanges, y # x, Local(x)
    PROVE  Follows(y)' /\ Justified(y)'
<1>1. setting' = setting /\ h'[y] = h[y] /\ delivered'[y] = delivered[y]
      /\ (y \in validated => y \in validated')
  BY DEF RInv, IInv, TypeOK, Local
<1>2. \A k \in Connectors : status'[k][y] = status[k][y]
  BY WithStatusAt DEF RInv, IInv, Local
<1>3. h[y].at \in Connectors /\ Other(h[y].at) \in Connectors
      /\ "provider" \in Connectors /\ "consumer" \in Connectors
  BY DEF RInv, IInv, TypeOK, Handler, Other, Connectors
<1>4. Follows(y)'
  BY <1>1, <1>2, <1>3 DEF RInv, Follows, Shows, Undecided
<1>5. Permitted' = Permitted /\ ToApplication' = ToApplication
  BY <1>1 DEF Permitted, ToApplication
<1>6. Justified(y)'
  BY <1>1, <1>5 DEF RInv, Justified
<1> QED
  BY <1>4, <1>6

\* Ending handlers, and what the records do not show, is not seen.
LEMMA EndingImplements ==
    ASSUME RInv, IInv', UNCHANGED <<setting, granted, attached, records>>,
           \A x \in Exchanges : h'[x] = h[x] \/ h'[x].pc = "ended"
    PROVE  RInv' /\ UNCHANGED Outcome!vars
<1>1. UNCHANGED Unseen /\ Permitted' = Permitted /\ ToApplication' = ToApplication
  BY DEF records, Unseen, Permitted, ToApplication
<1>2. ASSUME NEW x \in Exchanges PROVE Follows(x)' /\ Justified(x)'
  <2>1. CASE h'[x] = h[x]
    BY <1>1, <2>1 DEF RInv, Follows, Justified, Shows, Undecided, Unseen
  <2>2. CASE h'[x].pc = "ended"
    BY <2>2 DEF Follows, Justified, Working
  <2> QED
    BY <2>1, <2>2
<1> QED
  BY <1>1, <1>2, UnseenStutters DEF RInv

LEMMA NextImplements == RInv /\ [Next]_vars => RInv' /\ [Outcome!Next]_(Outcome!vars)
<1> SUFFICES ASSUME RInv, [Next]_vars PROVE RInv' /\ [Outcome!Next]_(Outcome!vars)
  OBVIOUS
<1>1. IInv /\ IInv' /\ TypeOK' /\ h \in [Exchanges -> Handler]
  BY NextIInv, TypeFacts DEF RInv, IInv
<1>2. CASE \E x \in Exchanges : Trigger(x) \/ Step(x)
  <2>1. PICK x \in Exchanges : Trigger(x) \/ Step(x)
    BY <1>2
  <2>2. Implements(x) /\ Local(x)
    BY <1>1, <2>1, StepImplements, StepIsLocal DEF IInv
  <2> QED
    BY <1>1, <2>2, OthersFollow DEF RInv, Implements
<1>3. CASE Revoke
  <2>1. UNCHANGED <<setting, attached, status, validated, delivered, answered, h>> /\ granted' = FALSE
    BY <1>3 DEF Revoke, records
  <2>2. Permitted' = Permitted /\ Gotten' = Gotten /\ ToApplication' = ToApplication
    BY <2>1 DEF Permitted, Gotten, Got, ToApplication
  <2>3. Outcome!Revoke
    BY <2>1, <2>2 DEF Outcome!Revoke, Outcome!terms, Outcome!data, Gotten
  <2>4. \A x \in Exchanges : Follows(x)' /\ Justified(x)'
    BY <2>1, <2>2 DEF RInv, Follows, Justified, Shows, Undecided
  <2> QED
    BY <1>1, <2>3, <2>4 DEF RInv, Outcome!Next
<1>4. CASE \E k \in Connectors : \E key \in {"current", "stale"} : UpdateConsentKey(k, key)
  <2>1. UNCHANGED <<setting, granted, attached, records, h>>
    BY <1>4 DEF UpdateConsentKey
  <2> QED
    BY <1>1, <2>1, EndingImplements
<1>5. CASE \E k \in Connectors : Crash(k)
  <2>1. UNCHANGED <<setting, granted, attached, records>>
    BY <1>5 DEF Crash, consent
  <2>2. \A x \in Exchanges : [h[x] EXCEPT !.pc = "ended"].pc = "ended"
    BY <1>1 DEF Handler
  <2>3. \A x \in Exchanges : h'[x] = h[x] \/ h'[x].pc = "ended"
    BY <1>1, <1>5, <2>2 DEF Crash
  <2> QED
    BY <1>1, <2>1, <2>3, EndingImplements
<1>6. CASE UNCHANGED vars
  BY <1>1, <1>6, EndingImplements DEF vars, records
<1> QED
  BY <1>2, <1>3, <1>4, <1>5, <1>6 DEF Next

\* What the user, the applications and the records see is what ConsentOutcome
\* allows, for every number of triggers, faults and keys.
THEOREM ExchangeImplementsOutcome == Spec => ImplementsOutcome
<1> QED
  BY InitImplements, NextImplements, PTL DEF Spec, ImplementsOutcome, Outcome!Spec
=============================================================================
