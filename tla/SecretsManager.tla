--------------------------- MODULE SecretsManager ---------------------------
(***************************************************************************)
(* The life of one secrets-manager client: NewSecretsManager and init,     *)
(* GetSecrets with the PostQuery loop, the handling of HTTP errors and the *)
(* adoption of the application key (core/core.go), against the service it  *)
(* talks to, a network that loses and delays requests, a process that can  *)
(* stop between any two writes of its configuration, and the optional      *)
(* cache of get_secret responses (core/cache.go).                          *)
(*                                                                         *)
(* Data abstraction.  A one-time token stands for itself and for the two   *)
(* things derived from it: the client id (an HMAC of the token) and the    *)
(* application key the service encrypts under it.  So clientId = t reads   *)
(* "the hash of t" and appKey = t reads "the key of the application t      *)
(* belongs to"; decrypting under the wrong token fails.  A key pair stands *)
(* for its private and its public half.  All tokens are of one region, so  *)
(* the hostname, which never changes, is left out.                         *)
(***************************************************************************)
EXTENDS Naturals, FiniteSets

CONSTANTS
  Token,         \* one-time tokens
  KeyPair,       \* EC key pairs the client may generate
  KeyId,         \* ids of the server public keys the client knows
  DefaultKeyId,  \* the one it starts from
  UnknownKeyId,  \* an id it does not know
  None,          \* an absent key of the configuration, an empty string
  CodeToken,     \* what ClientOptions.Token may hold at a start
  EnvToken,      \* what KSM_TOKEN may hold at a start
  UseCache,      \* whether SetCache was called
  Resends,       \* whether the service repeats the app key when asked again
  MaxFaults      \* bound on crashes, losses, server errors and rotations

ASSUME ConstantsAssumption ==
  /\ DefaultKeyId \in KeyId
  /\ UnknownKeyId \notin KeyId \cup {None}
  /\ None \notin Token \cup KeyPair \cup KeyId
  /\ CodeToken \subseteq Token \cup {None}
  /\ EnvToken \subseteq Token \cup {None}
  /\ UseCache \in BOOLEAN
  /\ Resends \in BOOLEAN
  /\ MaxFaults \in Nat

VARIABLES
  cfg,         \* the configuration in the key-value storage (persistent)
  cache,       \* the cached get_secret response, or None
  pc,          \* where the client is
  opt,         \* token from the code and from the environment, this start
  payload,     \* the payload of the query being posted
  round,       \* 1: first fetch of the call; 2: the fetch after binding
  got,         \* the response being decoded
  secret,      \* key the records are decrypted with
  outcome,     \* what the last GetSecrets returned
  call,        \* request on its way to the service, or None
  reply,       \* answer on its way back, or None
  late,        \* requests whose sender stopped waiting for them
  registered,  \* the service's device key of each client id, or None
  serverKey,   \* id of the key pair the service accepts now
  faults       \* faults so far

config  == <<cfg, cache>>
process == <<pc, opt, payload, round, got, secret, outcome>>
network == <<call, reply, late>>
service == <<registered, serverKey>>
vars    == <<config, process, network, service, faults>>

-----------------------------------------------------------------------------
(* Types *)

OptToken == Token \cup {None}

Config == [clientKey : OptToken, clientId : OptToken, appKey : OptToken,
           ownerKey : OptToken, privateKey : KeyPair \cup {None},
           keyId : KeyId \cup {UnknownKeyId, None}]

\* GetPayload: the public key is there only when the app key is missing.
Payload == [id : OptToken, pub : KeyPair \cup {None}]

Request == [id : OptToken, pub : KeyPair \cup {None},
            sign : KeyPair \cup {None}, kid : KeyId \cup {UnknownKeyId, None}]

\* status "ok" is 200; "key" is the error naming another server key; "error"
\* is any other status.  bind: the body carries encryptedAppKey.
Reply == [status : {"ok", "key", "error"}, app : OptToken, bind : BOOLEAN,
          kid : KeyId \cup {UnknownKeyId, None}]

OkReply(t, b) == [status |-> "ok", app |-> t, bind |-> b, kid |-> None]
KeyReply(k)   == [status |-> "key", app |-> None, bind |-> FALSE, kid |-> k]
ErrorReply    == [status |-> "error", app |-> None, bind |-> FALSE,
                  kid |-> None]

StartPc == {"args", "keyId", "init", "delPrivate", "delApp", "setId",
            "setPrivate"}
FetchPc == {"post", "await", "fetched", "dropKey", "owner", "refetch"}
Pc      == {"off", "ready"} \cup StartPc \cup FetchPc

Failure == {"none", "differentToken", "noToken", "payload", "sign",
            "transport", "post", "noClientKey", "noAppKey"}
Outcome == [kind : Failure \cup {"ok"}, app : OptToken, key : OptToken]

Failed(kind)      == [kind |-> kind, app |-> None, key |-> None]
Delivered(app, k) == [kind |-> "ok", app |-> app, key |-> k]

NoOpt     == [token |-> None, env |-> None]
NoPayload == [id |-> None, pub |-> None]
NoReply   == ErrorReply

EmptyConfig == [clientKey |-> None, clientId |-> None, appKey |-> None,
                ownerKey |-> None, privateKey |-> None, keyId |-> None]

-----------------------------------------------------------------------------
(* A configuration as an administrator hands it out: empty, or with a token *)
(* in it, and with any server key id an older client may have left.         *)

Init ==
  /\ \E t \in OptToken, k \in {None, UnknownKeyId, DefaultKeyId} :
       cfg = [EmptyConfig EXCEPT !.clientKey = t, !.keyId = k]
  /\ cache = None
  /\ pc = "off"
  /\ opt = NoOpt
  /\ payload = NoPayload
  /\ round = 1
  /\ got = NoReply
  /\ secret = None
  /\ outcome = Failed("none")
  /\ call = None
  /\ reply = None
  /\ late = {}
  /\ registered = [t \in Token |-> None]
  /\ serverKey \in KeyId
  /\ faults = 0

-----------------------------------------------------------------------------
(* NewSecretsManager and init: every write of the configuration is a step   *)

\* The calling program sets the token it was given in code and environment.
Start(t, e) ==
  /\ pc = "off"
  /\ opt' = [token |-> t, env |-> e]
  /\ outcome' = Failed("none")
  /\ pc' = "args"
  /\ UNCHANGED <<config, payload, round, got, secret, network, service, faults>>

\* Broken variant: a token of the configuration is not overridden.
ArgsYieldToConfig ==
  /\ pc = "args"
  /\ cfg' = IF opt.token # None /\ cfg.clientKey = None
              THEN [cfg EXCEPT !.clientKey = opt.token] ELSE cfg
  /\ pc' = "keyId"
  /\ UNCHANGED <<cache, opt, payload, round, got, secret, outcome, network,
                 service, faults>>

ArgsToConfig ==
  /\ pc = "args"
  /\ cfg' = IF opt.token # None THEN [cfg EXCEPT !.clientKey = opt.token]
                                ELSE cfg
  /\ pc' = "keyId"
  /\ UNCHANGED <<cache, opt, payload, round, got, secret, outcome, network,
                 service, faults>>

CheckKeyId ==
  /\ pc = "keyId"
  /\ cfg' = IF cfg.keyId \in KeyId THEN cfg
                                   ELSE [cfg EXCEPT !.keyId = DefaultKeyId]
  /\ pc' = "init"
  /\ UNCHANGED <<cache, opt, payload, round, got, secret, outcome, network,
                 service, faults>>

\* LoadSecretKey: the environment, then the code, then the configuration.
LoadSecretKey ==
  CASE opt.env # None                      -> opt.env
    [] opt.env = None /\ opt.token # None  -> opt.token
    [] OTHER                               -> cfg.clientKey

\* Broken variant: the client id of another token goes unnoticed.
AnyTokenWelcome == FALSE

DifferentToken == opt.token # None /\ cfg.clientId \notin {None, opt.token}

\* Broken variant: whether the configuration is bound is not looked at.
UnboundTokenUnchecked == opt.token # None

\* unboundToken stays true for a token the configuration is not bound with.
UnboundToken ==
  opt.token # None /\ ~(cfg.clientId = opt.token /\ cfg.appKey # None)

StartFails(kind) ==
  /\ outcome' = Failed(kind)
  /\ pc' = "off"
  /\ opt' = NoOpt
  /\ UNCHANGED <<config, payload, round, got, secret, network, service, faults>>

RejectToken ==
  /\ pc = "init"
  /\ DifferentToken
  /\ StartFails("differentToken")

AlreadyBound ==
  /\ pc = "init"
  /\ ~DifferentToken
  /\ cfg.clientId # None /\ ~UnboundToken
  /\ cfg' = [cfg EXCEPT !.clientKey = None]
  /\ pc' = "ready"
  /\ UNCHANGED <<cache, opt, payload, round, got, secret, outcome, network,
                 service, faults>>

NoTokenFound ==
  /\ pc = "init"
  /\ ~DifferentToken
  /\ cfg.clientId = None \/ UnboundToken
  /\ LoadSecretKey = None
  /\ StartFails("noToken")

\* The first of the three deletions before the identity is made anew.
DeleteClientId ==
  /\ pc = "init"
  /\ ~DifferentToken
  /\ cfg.clientId = None \/ UnboundToken
  /\ LoadSecretKey # None
  /\ cfg' = [cfg EXCEPT !.clientId = None]
  /\ pc' = "delPrivate"
  /\ UNCHANGED <<cache, opt, payload, round, got, secret, outcome, network,
                 service, faults>>

DeletePrivateKey ==
  /\ pc = "delPrivate"
  /\ cfg' = [cfg EXCEPT !.privateKey = None]
  /\ pc' = "delApp"
  /\ UNCHANGED <<cache, opt, payload, round, got, secret, outcome, network,
                 service, faults>>

DeleteAppKey ==
  /\ pc = "delApp"
  /\ cfg' = [cfg EXCEPT !.appKey = None]
  /\ pc' = "setId"
  /\ UNCHANGED <<cache, opt, payload, round, got, secret, outcome, network,
                 service, faults>>

SetClientId ==
  /\ pc = "setId"
  /\ cfg' = [cfg EXCEPT !.clientId = LoadSecretKey]
  /\ pc' = "setPrivate"
  /\ UNCHANGED <<cache, opt, payload, round, got, secret, outcome, network,
                 service, faults>>

\* A key pair nobody holds: neither the service nor a request under way.
FreshKeyPair(k) ==
  /\ \A t \in Token : registered[t] # k
  /\ \A r \in late : r.pub # k

SetPrivateKey ==
  /\ pc = "setPrivate"
  /\ \E k \in KeyPair :
       /\ FreshKeyPair(k)
       /\ cfg' = [cfg EXCEPT !.privateKey = k]
  /\ pc' = "ready"
  /\ UNCHANGED <<cache, opt, payload, round, got, secret, outcome, network,
                 service, faults>>

-----------------------------------------------------------------------------
(* GetSecretsFullResponse: fetchAndDecryptSecrets, once more if just bound  *)

CallReturns(result) ==
  /\ outcome' = result
  /\ pc' = "ready"
  /\ payload' = NoPayload
  /\ round' = 1
  /\ got' = NoReply
  /\ secret' = None

\* Broken variant: an app key, once there, is sent in the public key's place.
PrepareGetSendingAppKey(r) ==
  /\ IF cfg.clientId = None \/ (cfg.appKey = None /\ cfg.privateKey = None)
       THEN CallReturns(Failed("payload"))
       ELSE /\ payload' = [id |-> cfg.clientId,
                           pub |-> IF cfg.appKey = None THEN cfg.privateKey
                                                        ELSE cfg.appKey]
            /\ round' = r
            /\ pc' = "post"
            /\ got' = NoReply
            /\ secret' = None
            /\ outcome' = Failed("none")
  /\ UNCHANGED <<config, opt, network, service, faults>>

\* prepareGetPayload: without an app key the public key goes along, and
\* without a private key there is none to send.
PrepareGet(r) ==
  /\ IF cfg.clientId = None \/ (cfg.appKey = None /\ cfg.privateKey = None)
       THEN CallReturns(Failed("payload"))
       ELSE /\ payload' = [id |-> cfg.clientId,
                           pub |-> IF cfg.appKey = None THEN cfg.privateKey
                                                        ELSE None]
            /\ round' = r
            /\ pc' = "post"
            /\ got' = NoReply
            /\ secret' = None
            /\ outcome' = Failed("none")
  /\ UNCHANGED <<config, opt, network, service, faults>>

GetSecrets == pc = "ready"   /\ PrepareGet(1)
Refetch    == pc = "refetch" /\ PrepareGet(2)

\* A blank key id is replaced by the default, in the configuration too.
TransmissionKeyId == IF cfg.keyId = None THEN DefaultKeyId ELSE cfg.keyId

\* GenerateTransmissionKey needs a key of the service, encryptAndSignPayload
\* one of the client.
CanSend == TransmissionKeyId \in KeyId /\ cfg.privateKey # None

\* One turn of the PostQuery loop up to the request; the payload is the same
\* in every turn, the transmission key is of the key id configured now.
Send ==
  /\ pc = "post"
  /\ cfg' = [cfg EXCEPT !.keyId = TransmissionKeyId]
  /\ IF ~CanSend
       THEN /\ CallReturns(Failed("sign"))
            /\ UNCHANGED call
       ELSE /\ call' = [id |-> payload.id, pub |-> payload.pub,
                        sign |-> cfg.privateKey, kid |-> TransmissionKeyId]
            /\ pc' = "await"
            /\ UNCHANGED <<payload, round, got, secret, outcome>>
  /\ UNCHANGED <<cache, opt, reply, late, service, faults>>

\* A transport error ends the query at once: no retry, no look at the cache.
\* The request may still be under way.
TransportError ==
  /\ pc = "await"
  /\ faults < MaxFaults
  /\ faults' = faults + 1
  /\ late' \in {late, late \cup ({call} \ {None})}
  /\ call' = None
  /\ reply' = None
  /\ CallReturns(Failed("transport"))
  /\ UNCHANGED <<config, opt, service>>

\* SaveCachedValue: an error is not looked at.  A file is emptied before it is
\* written, and an empty one counts as no cached response.
Saved(response) == IF UseCache THEN {response, cache, None} ELSE {cache}

ReceiveOk ==
  /\ pc = "await" /\ reply # None
  /\ reply.status = "ok"
  /\ cache' \in Saved(reply)
  /\ got' = reply
  /\ reply' = None
  /\ pc' = "fetched"
  /\ UNCHANGED <<cfg, opt, payload, round, secret, outcome, call, late,
                 service, faults>>

\* With a cache every response that is not a 200 is replaced by the cached
\* one, whatever the error: HandleHttpError is not reached.
UseCachedReply ==
  /\ pc = "await" /\ reply # None
  /\ reply.status # "ok"
  /\ UseCache /\ cache # None
  /\ got' = cache
  /\ reply' = None
  /\ pc' = "fetched"
  /\ UNCHANGED <<config, opt, payload, round, secret, outcome, call, late,
                 service, faults>>

CacheMiss == ~UseCache \/ cache = None

\* Broken variant: the key id of the error is taken over unseen.
SwitchToAnyKey ==
  /\ pc = "await" /\ reply # None
  /\ reply.status = "key"
  /\ CacheMiss
  /\ cfg' = [cfg EXCEPT !.keyId = reply.kid]
  /\ reply' = None
  /\ pc' = "post"
  /\ UNCHANGED <<cache, opt, payload, round, got, secret, outcome, call, late,
                 service, faults>>

\* Broken variant: the retry is made with the key id the service refused.
RetryWithSameKey ==
  /\ pc = "await" /\ reply # None
  /\ reply.status = "key" /\ reply.kid \in KeyId
  /\ CacheMiss
  /\ reply' = None
  /\ pc' = "post"
  /\ UNCHANGED <<config, opt, payload, round, got, secret, outcome, call, late,
                 service, faults>>

\* HandleHttpError: the retry.
SwitchKey ==
  /\ pc = "await" /\ reply # None
  /\ reply.status = "key" /\ reply.kid \in KeyId
  /\ CacheMiss
  /\ cfg' = [cfg EXCEPT !.keyId = reply.kid]
  /\ reply' = None
  /\ pc' = "post"
  /\ UNCHANGED <<cache, opt, payload, round, got, secret, outcome, call, late,
                 service, faults>>

PostFails ==
  /\ pc = "await" /\ reply # None
  /\ \/ reply.status = "error"
     \/ reply.status = "key" /\ reply.kid \notin KeyId
  /\ CacheMiss
  /\ reply' = None
  /\ CallReturns(Failed("post"))
  /\ UNCHANGED <<config, opt, call, late, service, faults>>

\* fetchAndDecryptSecrets, response with an encryptedAppKey in it.
NoClientKey ==
  /\ pc = "fetched"
  /\ got.bind /\ cfg.clientKey = None
  /\ CallReturns(Failed("noClientKey"))
  /\ UNCHANGED <<config, opt, network, service, faults>>

AdoptAppKey ==
  /\ pc = "fetched"
  /\ got.bind /\ cfg.clientKey # None /\ cfg.clientKey = got.app
  /\ cfg' = [cfg EXCEPT !.appKey = got.app]
  /\ secret' = got.app
  /\ pc' = "dropKey"
  /\ UNCHANGED <<cache, opt, payload, round, got, outcome, network, service,
                 faults>>

DropClientKey ==
  /\ pc = "dropKey"
  /\ cfg' = [cfg EXCEPT !.clientKey = None]
  /\ pc' = "owner"
  /\ UNCHANGED <<cache, opt, payload, round, got, secret, outcome, network,
                 service, faults>>

\* The failure to decrypt is logged; the response is used all the same.
AppKeyUndecryptable ==
  /\ pc = "fetched"
  /\ got.bind /\ cfg.clientKey \notin {None, got.app}
  /\ pc' = "owner"
  /\ UNCHANGED <<config, opt, payload, round, got, secret, outcome, network,
                 service, faults>>

\* The owner's key, then the end of a JustBound fetch: the first round is
\* thrown away and asked again, the second is what the caller gets.
SetOwnerKey ==
  /\ pc = "owner"
  /\ cfg' = [cfg EXCEPT !.ownerKey = got.app]
  /\ IF round = 1
       THEN /\ pc' = "refetch"
            /\ UNCHANGED <<payload, round, got, secret, outcome>>
       ELSE CallReturns(Delivered(got.app, secret))
  /\ UNCHANGED <<cache, opt, network, service, faults>>

Deliver ==
  /\ pc = "fetched"
  /\ ~got.bind
  /\ CallReturns(IF cfg.appKey = None THEN Failed("noAppKey")
                                      ELSE Delivered(got.app, cfg.appKey))
  /\ UNCHANGED <<config, opt, network, service, faults>>

\* The process ends or is killed; the configuration stays, and so does a cache
\* that is a file.
Crash ==
  /\ pc # "off"
  /\ faults < MaxFaults
  /\ faults' = faults + 1
  /\ pc' = "off"
  /\ opt' = NoOpt
  /\ payload' = NoPayload
  /\ round' = 1
  /\ got' = NoReply
  /\ secret' = None
  /\ outcome' = Failed("none")
  /\ late' \in {late, late \cup ({call} \ {None})}
  /\ call' = None
  /\ reply' = None
  /\ cache' \in {cache, None}
  /\ UNCHANGED <<cfg, service>>

\* Purge, by the program or by another one that has the file.
PurgeCache ==
  /\ pc \in {"off", "ready"}
  /\ cache # None
  /\ cache' = None
  /\ UNCHANGED <<cfg, process, network, service, faults>>

-----------------------------------------------------------------------------
(* The service, as the client's code relies on it (external)               *)

Accepted(r) == r.kid = serverKey
NewDevice(r) == registered[r.id] = None /\ r.pub # None /\ r.sign = r.pub
KnownDevice(r) == registered[r.id] # None /\ r.sign = registered[r.id]

Answer(rep) ==
  /\ reply' = rep
  /\ call' = None
  /\ UNCHANGED <<config, process, late, serverKey>>

ServerAsksKey ==
  /\ call # None /\ ~Accepted(call)
  /\ Answer(KeyReply(serverKey))
  /\ UNCHANGED <<registered, faults>>

\* The token is redeemed: the device key is stored, the app key sent once.
ServerBinds ==
  /\ call # None /\ Accepted(call) /\ NewDevice(call)
  /\ registered' = [registered EXCEPT ![call.id] = call.pub]
  /\ Answer(OkReply(call.id, TRUE))
  /\ UNCHANGED faults

ServerAnswers ==
  /\ call # None /\ Accepted(call) /\ KnownDevice(call)
  /\ Answer(OkReply(call.id, Resends /\ call.pub # None))
  /\ UNCHANGED <<registered, faults>>

ServerDenies ==
  /\ call # None /\ Accepted(call) /\ ~NewDevice(call) /\ ~KnownDevice(call)
  /\ Answer(ErrorReply)
  /\ UNCHANGED <<registered, faults>>

\* A 5xx, or a key error the client cannot follow.
ServerFails ==
  /\ call # None
  /\ faults < MaxFaults
  /\ faults' = faults + 1
  /\ \E rep \in {ErrorReply, KeyReply(UnknownKeyId), KeyReply(None)} :
       Answer(rep)
  /\ UNCHANGED registered

\* A request whose sender gave up arrives, or never does.
LateRequest ==
  \E r \in late :
    /\ late' = late \ {r}
    /\ registered' = IF Accepted(r) /\ NewDevice(r)
                       THEN [registered EXCEPT ![r.id] = r.pub]
                       ELSE registered
    /\ UNCHANGED <<config, process, call, reply, serverKey, faults>>

RequestLost ==
  \E r \in late :
    /\ late' = late \ {r}
    /\ UNCHANGED <<config, process, call, reply, service, faults>>

RotateServerKey ==
  /\ faults < MaxFaults
  /\ faults' = faults + 1
  /\ serverKey' \in KeyId \ {serverKey}
  /\ UNCHANGED <<config, process, network, registered>>

-----------------------------------------------------------------------------

Startup ==
  \/ ArgsToConfig \/ CheckKeyId
  \/ RejectToken \/ AlreadyBound \/ NoTokenFound
  \/ DeleteClientId \/ DeletePrivateKey \/ DeleteAppKey
  \/ SetClientId \/ SetPrivateKey

Fetch ==
  \/ Send \/ ReceiveOk \/ UseCachedReply \/ SwitchKey \/ PostFails
  \/ NoClientKey \/ AdoptAppKey \/ DropClientKey \/ AppKeyUndecryptable
  \/ SetOwnerKey \/ Deliver \/ Refetch

Serve == ServerAsksKey \/ ServerBinds \/ ServerAnswers \/ ServerDenies

Environment ==
  \/ Crash \/ TransportError \/ ServerFails \/ LateRequest \/ RequestLost
  \/ RotateServerKey \/ PurgeCache

AnyStart == \E t \in CodeToken, e \in EnvToken : Start(t, e)

Next == AnyStart \/ Startup \/ GetSecrets \/ Fetch \/ Serve \/ Environment

Spec == Init /\ [][Next]_vars

\* The program runs on, is started again when it stopped and keeps asking
\* for its secrets; the service answers what it receives.  Nothing is
\* assumed of the environment.
Fairness ==
  /\ WF_vars(AnyStart) /\ WF_vars(Startup)
  /\ WF_vars(GetSecrets) /\ WF_vars(Fetch)
  /\ WF_vars(Serve)

FairSpec == Spec /\ Fairness

-----------------------------------------------------------------------------
(* Properties *)

\* Every variable has its type; an empty configuration key reads as None.
TypeOK ==
  /\ cfg \in Config
  /\ cache \in Reply \cup {None}
  /\ pc \in Pc
  /\ opt \in [token : OptToken, env : OptToken]
  /\ payload \in Payload
  /\ round \in {1, 2}
  /\ got \in Reply
  /\ secret \in OptToken
  /\ outcome \in Outcome
  /\ call \in Request \cup {None}
  /\ reply \in Reply \cup {None}
  /\ late \subseteq Request
  /\ registered \in [Token -> KeyPair \cup {None}]
  /\ serverKey \in KeyId
  /\ faults \in 0..MaxFaults

Bound == cfg.appKey # None

\* A configuration that holds an application key can use it: the key is of
\* the application the stored client id was issued for, and the stored
\* private key is the one the service registered for that client id.  Without
\* a cache no crash, loss, delay, rotation or odd choice of token breaks it.
BoundIdentity ==
  Bound => /\ cfg.clientId = cfg.appKey
           /\ cfg.privateKey # None
           /\ cfg.privateKey = registered[cfg.clientId]

\* Once bound a configuration keeps its identity: no later start, with
\* whatever token, and no failed step of one takes its app key, client id or
\* private key away (the deletes of init never reach a bound configuration).
IdentityKept ==
  [][Bound => /\ cfg'.appKey = cfg.appKey
              /\ cfg'.clientId = cfg.clientId
              /\ cfg'.privateKey = cfg.privateKey]_vars

\* What GetSecrets hands out was decrypted with the key it was encrypted with,
\* unless the environment names a token (LoadSecretKey then takes the client
\* id from one token and the app key is decrypted with another).
DeliveredReadable ==
  outcome.kind = "ok" /\ opt.env = None => outcome.key = outcome.app

\* After the checks of NewSecretsManager the configuration names a server key
\* the client has: neither an old configuration nor any answer of the service
\* leaves one that every later query would fail on.
KeyIdUsable == pc \notin {"off", "args", "keyId"} => cfg.keyId \in KeyId

\* The binding without a cache is the one DeviceBinding promises.
Device == IF Bound THEN [id |-> cfg.clientId, key |-> cfg.privateKey] ELSE None
Promise == INSTANCE DeviceBinding WITH device <- Device
ImplementsBinding == Promise!Spec

\* A client that keeps asking ends up bound, unless the service holds
\* another device key for its client id: the response to a binding request
\* was lost with the key pair that signed it.
Orphaned ==
  /\ cfg.clientId # None
  /\ registered[cfg.clientId] \notin {None, cfg.privateKey}
EventuallyBound == <>(Bound \/ Orphaned)

(* What comments and the README say, and the code does not do *)

\* A token of the environment is a source of the client key like the others:
\* the client does not miss it when the service answers the binding.
EnvTokenBinds == outcome.kind = "noClientKey" => opt.env = None

=============================================================================
