------------------------ MODULE SecretsManagerProofs ------------------------
(***************************************************************************)
(* Proofs about SecretsManager for any tokens, key pairs, key ids and any  *)
(* number of faults.                                                       *)
(***************************************************************************)
EXTENDS SecretsManager, TLAPS

LEMMA TypeInit == Init => TypeOK
<1> SUFFICES ASSUME Init PROVE TypeOK
  OBVIOUS
<1> USE ConstantsAssumption DEF ConstantsAssumption, Init, OptToken
<1>1. cfg \in Config
  <2> PICK t \in OptToken, k \in {None, UnknownKeyId, DefaultKeyId} :
        cfg = [EmptyConfig EXCEPT !.clientKey = t, !.keyId = k]
    BY DEF Init
  <2> QED BY DEF Config, EmptyConfig
<1>2. got \in Reply /\ outcome \in Outcome
  BY DEF NoReply, ErrorReply, Reply, Failed, Outcome, Failure
<1>3. payload \in Payload /\ opt \in [token : OptToken, env : OptToken]
  BY DEF NoPayload, Payload, NoOpt
<1>4. registered \in [Token -> KeyPair \cup {None}] /\ faults \in 0..MaxFaults
  OBVIOUS
<1> QED
  BY <1>1, <1>2, <1>3, <1>4 DEF TypeOK, Pc

-----------------------------------------------------------------------------
(* Type correctness, one lemma per group of actions                         *)

LEMMA TypeStart ==
  ASSUME TypeOK, AnyStart
  PROVE  TypeOK'
<1> PICK t \in CodeToken, e \in EnvToken : Start(t, e)
  BY DEF AnyStart
<1> USE ConstantsAssumption DEF ConstantsAssumption, TypeOK, Start, config, network, service
<1>1. opt' \in [token : OptToken, env : OptToken]
  BY DEF OptToken
<1>2. outcome' \in Outcome
  BY DEF Failed, Outcome, Failure, OptToken
<1>3. pc' \in Pc
  BY DEF Pc, StartPc
<1> QED
  BY <1>1, <1>2, <1>3

LEMMA SecretKeyType ==
  ASSUME TypeOK
  PROVE  LoadSecretKey \in OptToken
BY DEF TypeOK, LoadSecretKey, Config, OptToken

LEMMA TypeStartup ==
  ASSUME TypeOK, Startup
  PROVE  TypeOK'
<1> USE ConstantsAssumption DEF ConstantsAssumption, TypeOK, config, network, service
<1>a. None \in OptToken /\ None \in KeyPair \cup {None}
  BY DEF OptToken
<1>b. opt.token \in OptToken
  OBVIOUS
<1>c. "keyId" \in Pc /\ "init" \in Pc /\ "ready" \in Pc /\ "off" \in Pc
      /\ "delPrivate" \in Pc /\ "delApp" \in Pc /\ "setId" \in Pc
      /\ "setPrivate" \in Pc
  BY DEF Pc, StartPc
<1>1. CASE ArgsToConfig
  <2>1. cfg' \in Config
    BY <1>1, <1>b DEF ArgsToConfig, Config
  <2> QED BY <1>1, <1>c, <2>1 DEF ArgsToConfig
<1>2. CASE CheckKeyId
  <2>1. cfg' \in Config
    BY <1>2 DEF CheckKeyId, Config
  <2> QED BY <1>2, <1>c, <2>1 DEF CheckKeyId
<1>3. ASSUME NEW kind \in Failure, StartFails(kind)
      PROVE  TypeOK'
  <2>1. outcome' \in Outcome
    BY <1>3 DEF StartFails, Failed, Outcome, OptToken
  <2>2. opt' \in [token : OptToken, env : OptToken]
    BY <1>3 DEF StartFails, NoOpt, OptToken
  <2> QED BY <1>3, <1>c, <2>1, <2>2 DEF StartFails
<1>4. CASE RejectToken
  BY <1>3, <1>4 DEF RejectToken, Failure
<1>5. CASE NoTokenFound
  BY <1>3, <1>5 DEF NoTokenFound, Failure
<1>6. CASE AlreadyBound
  <2>1. cfg' \in Config
    BY <1>6, <1>a DEF AlreadyBound, Config
  <2> QED BY <1>6, <1>c, <2>1 DEF AlreadyBound
<1>7. CASE DeleteClientId
  <2>1. cfg' \in Config
    BY <1>7, <1>a DEF DeleteClientId, Config
  <2> QED BY <1>7, <1>c, <2>1 DEF DeleteClientId
<1>8. CASE DeletePrivateKey
  <2>1. cfg' \in Config
    BY <1>8, <1>a DEF DeletePrivateKey, Config
  <2> QED BY <1>8, <1>c, <2>1 DEF DeletePrivateKey
<1>9. CASE DeleteAppKey
  <2>1. cfg' \in Config
    BY <1>9, <1>a DEF DeleteAppKey, Config
  <2> QED BY <1>9, <1>c, <2>1 DEF DeleteAppKey
<1>10. CASE SetClientId
  <2>1. cfg' \in Config
    BY <1>10, SecretKeyType DEF SetClientId, Config
  <2> QED BY <1>10, <1>c, <2>1 DEF SetClientId
<1>11. CASE SetPrivateKey
  <2>1. cfg' \in Config
    BY <1>11 DEF SetPrivateKey, Config
  <2> QED BY <1>11, <1>c, <2>1 DEF SetPrivateKey
<1> QED
  BY <1>1, <1>2, <1>4, <1>5, <1>6, <1>7, <1>8, <1>9, <1>10, <1>11 DEF Startup

LEMMA TypeReturns ==
  ASSUME TypeOK, NEW result \in Outcome, CallReturns(result)
  PROVE  /\ outcome' \in Outcome
         /\ pc' \in Pc
         /\ payload' \in Payload
         /\ round' \in {1, 2}
         /\ got' \in Reply
         /\ secret' \in OptToken
BY DEF CallReturns, Pc, NoPayload, Payload, NoReply, ErrorReply, Reply,
       OptToken

LEMMA FailedType ==
  ASSUME NEW kind \in Failure
  PROVE  Failed(kind) \in Outcome
BY DEF Failed, Outcome, OptToken

LEMMA TypePrepare ==
  ASSUME TypeOK, NEW r \in {1, 2}, PrepareGet(r)
  PROVE  TypeOK'
<1> USE DEF config, network, service
<1>1. CASE cfg.clientId = None \/ (cfg.appKey = None /\ cfg.privateKey = None)
  <2>1. CallReturns(Failed("payload"))
    BY <1>1 DEF PrepareGet
  <2>2. Failed("payload") \in Outcome
    BY FailedType DEF Failure
  <2> QED BY <2>1, <2>2, TypeReturns DEF PrepareGet, TypeOK
<1>2. CASE ~(cfg.clientId = None \/ (cfg.appKey = None /\ cfg.privateKey = None))
  <2>1. payload' \in Payload
    BY <1>2 DEF PrepareGet, TypeOK, Payload, Config, OptToken
  <2>2. got' \in Reply /\ secret' \in OptToken
    <3>1. NoReply \in Reply /\ None \in OptToken
      BY DEF NoReply, ErrorReply, Reply, OptToken
    <3>2. got' = NoReply /\ secret' = None
      BY <1>2 DEF PrepareGet
    <3> QED BY <3>1, <3>2
  <2>3. outcome' \in Outcome
    BY <1>2, FailedType DEF PrepareGet, Failure
  <2>4. round' \in {1, 2} /\ pc' \in Pc
    BY <1>2 DEF PrepareGet, Pc, FetchPc
  <2> QED BY <1>2, <2>1, <2>2, <2>3, <2>4 DEF PrepareGet, TypeOK
<1> QED BY <1>1, <1>2

LEMMA TypeFetch ==
  ASSUME TypeOK, Fetch
  PROVE  TypeOK'
<1> USE DEF config, network, service
<1>p. "await" \in Pc /\ "fetched" \in Pc /\ "post" \in Pc /\ "dropKey" \in Pc
      /\ "owner" \in Pc /\ "refetch" \in Pc
  BY DEF Pc, FetchPc
<1>n. None \in OptToken
  BY DEF OptToken
<1>f. ASSUME NEW kind \in Failure, CallReturns(Failed(kind))
      PROVE  /\ outcome' \in Outcome /\ pc' \in Pc /\ payload' \in Payload
             /\ round' \in {1, 2} /\ got' \in Reply /\ secret' \in OptToken
  BY <1>f, FailedType, TypeReturns
<1>1. CASE Send
  <2>0. /\ TransmissionKeyId \in KeyId \cup {UnknownKeyId, None}
        /\ cfg' \in Config
    BY <1>1, ConstantsAssumption
       DEF ConstantsAssumption, Send, CanSend, TransmissionKeyId, TypeOK, Config
  <2>1. CASE ~CanSend
    BY <1>1, <2>0, <2>1, <1>f DEF Send, TypeOK, Failure
  <2>2. CASE CanSend
    <3>1. call' \in Request
      BY <1>1, <2>0, <2>2 DEF Send, CanSend, TypeOK, Request, Payload, Config
    <3> QED BY <1>1, <2>0, <2>2, <3>1, <1>p DEF Send, CanSend, TypeOK
  <2> QED BY <2>1, <2>2
<1>2. CASE ReceiveOk
  BY <1>2, <1>p DEF ReceiveOk, Saved, TypeOK
<1>3. CASE UseCachedReply
  BY <1>3, <1>p DEF UseCachedReply, TypeOK
<1>4. CASE SwitchKey
  <2>1. cfg' \in Config
    BY <1>4 DEF SwitchKey, TypeOK, Config
  <2> QED BY <1>4, <1>p, <2>1 DEF SwitchKey, TypeOK
<1>5. CASE PostFails
  BY <1>5, <1>f DEF PostFails, TypeOK, Failure
<1>6. CASE NoClientKey
  BY <1>6, <1>f DEF NoClientKey, TypeOK, Failure
<1>7. CASE AdoptAppKey
  <2>1. cfg' \in Config /\ secret' \in OptToken
    BY <1>7 DEF AdoptAppKey, TypeOK, Config, Reply
  <2> QED BY <1>7, <1>p, <2>1 DEF AdoptAppKey, TypeOK
<1>8. CASE DropClientKey
  <2>1. cfg' \in Config
    BY <1>8, <1>n DEF DropClientKey, TypeOK, Config
  <2> QED BY <1>8, <1>p, <2>1 DEF DropClientKey, TypeOK
<1>9. CASE AppKeyUndecryptable
  BY <1>9, <1>p DEF AppKeyUndecryptable, TypeOK
<1>10. CASE SetOwnerKey
  <2>1. cfg' \in Config
    BY <1>10 DEF SetOwnerKey, TypeOK, Config, Reply
  <2>2. CASE round = 1
    BY <1>10, <1>p, <2>1, <2>2 DEF SetOwnerKey, TypeOK
  <2>3. CASE round # 1
    <3>1. Delivered(got.app, secret) \in Outcome
      BY DEF TypeOK, Delivered, Outcome, Reply
    <3>2. CallReturns(Delivered(got.app, secret))
      BY <1>10, <2>3 DEF SetOwnerKey
    <3> QED BY <1>10, <2>1, <3>1, <3>2, TypeReturns DEF SetOwnerKey, TypeOK
  <2> QED BY <2>2, <2>3
<1>11. CASE Deliver
  <2>1. Delivered(got.app, cfg.appKey) \in Outcome
    BY DEF TypeOK, Delivered, Outcome, Reply, Config
  <2>2. Failed("noAppKey") \in Outcome
    BY FailedType DEF Failure
  <2> QED BY <1>11, <2>1, <2>2, TypeReturns DEF Deliver, TypeOK
<1>12. CASE Refetch
  BY <1>12, TypePrepare DEF Refetch
<1> QED
  BY <1>1, <1>2, <1>3, <1>4, <1>5, <1>6, <1>7, <1>8, <1>9, <1>10, <1>11, <1>12
     DEF Fetch

LEMMA TypeServe ==
  ASSUME TypeOK, Serve
  PROVE  TypeOK'
<1> USE ConstantsAssumption DEF ConstantsAssumption, config, process, Answer
<1>1. ASSUME NEW t \in OptToken, NEW b \in BOOLEAN
      PROVE  OkReply(t, b) \in Reply
  BY DEF OkReply, Reply
<1>2. KeyReply(serverKey) \in Reply /\ ErrorReply \in Reply
  BY DEF TypeOK, KeyReply, ErrorReply, Reply, OptToken
<1>3. ASSUME call # None PROVE call.id \in OptToken /\ call.pub \in KeyPair \cup {None}
  BY <1>3 DEF TypeOK, Request
<1>4. CASE ServerAsksKey
  BY <1>4, <1>2 DEF ServerAsksKey, TypeOK
<1>5. CASE ServerBinds
  <2>1. reply' \in Reply
    BY <1>5, <1>1, <1>3 DEF ServerBinds
  <2>2. registered' \in [Token -> KeyPair \cup {None}]
    BY <1>5, <1>3 DEF ServerBinds, TypeOK
  <2> QED BY <1>5, <2>1, <2>2 DEF ServerBinds, TypeOK
<1>6. CASE ServerAnswers
  <2>1. reply' \in Reply
    BY <1>6, <1>1, <1>3 DEF ServerAnswers
  <2> QED BY <1>6, <2>1 DEF ServerAnswers, TypeOK
<1>7. CASE ServerDenies
  BY <1>7, <1>2 DEF ServerDenies, TypeOK
<1> QED BY <1>4, <1>5, <1>6, <1>7 DEF Serve

LEMMA TypeEnvironment ==
  ASSUME TypeOK, Environment
  PROVE  TypeOK'
<1> USE ConstantsAssumption
      DEF ConstantsAssumption, config, process, service, network
<1>1. ASSUME faults < MaxFaults, faults' = faults + 1
      PROVE  faults' \in 0..MaxFaults
  BY <1>1 DEF TypeOK
<1>2. ASSUME late' \in {late, late \cup ({call} \ {None})}
      PROVE  late' \subseteq Request
  BY <1>2 DEF TypeOK
<1>3. CASE Crash
  <2>1. outcome' \in Outcome
    BY <1>3, FailedType DEF Crash, Failure
  <2>2. payload' \in Payload /\ got' \in Reply /\ secret' \in OptToken
        /\ opt' \in [token : OptToken, env : OptToken]
    BY <1>3 DEF Crash, NoPayload, Payload, NoReply, ErrorReply, Reply, NoOpt,
                OptToken
  <2> QED BY <1>1, <1>2, <1>3, <2>1, <2>2 DEF Crash, TypeOK, Pc
<1>4. CASE TransportError
  <2>1. Failed("transport") \in Outcome
    BY FailedType DEF Failure
  <2> QED BY <1>1, <1>2, <1>4, <2>1, TypeReturns DEF TransportError, TypeOK
<1>5. CASE ServerFails
  <2>1. reply' \in Reply
    <3>1. ErrorReply \in Reply /\ KeyReply(UnknownKeyId) \in Reply
          /\ KeyReply(None) \in Reply
      BY DEF KeyReply, ErrorReply, Reply, OptToken
    <3> PICK rep \in {ErrorReply, KeyReply(UnknownKeyId), KeyReply(None)} :
               Answer(rep)
      BY <1>5 DEF ServerFails
    <3> QED BY <3>1 DEF Answer
  <2> QED BY <1>1, <1>5, <2>1 DEF ServerFails, Answer, TypeOK
<1>6. CASE LateRequest
  <2> PICK r \in late : LateRequest!(r)
    BY <1>6 DEF LateRequest
  <2>1. r \in Request
    BY DEF TypeOK
  <2>2. registered' \in [Token -> KeyPair \cup {None}]
    BY <2>1 DEF TypeOK, Request
  <2> QED BY <2>2 DEF TypeOK
<1>7. CASE RequestLost
  BY <1>7 DEF RequestLost, TypeOK
<1>8. CASE RotateServerKey
  BY <1>1, <1>8 DEF RotateServerKey, TypeOK
<1>9. CASE PurgeCache
  BY <1>9 DEF PurgeCache, TypeOK
<1> QED BY <1>3, <1>4, <1>5, <1>6, <1>7, <1>8, <1>9 DEF Environment

\* Every reachable state is well typed, for any constants and number of faults.
THEOREM TypeCorrect == Spec => []TypeOK
<1>1. Init => TypeOK
  BY TypeInit
<1>2. TypeOK /\ [Next]_vars => TypeOK'
  <2> SUFFICES ASSUME TypeOK, [Next]_vars PROVE TypeOK'
    OBVIOUS
  <2>1. CASE GetSecrets
    BY <2>1, TypePrepare DEF GetSecrets
  <2>2. CASE UNCHANGED vars
    BY <2>2 DEF vars, config, process, network, service, TypeOK
  <2> QED
    BY <2>1, <2>2, TypeStart, TypeStartup, TypeFetch, TypeServe, TypeEnvironment
       DEF Next
<1> QED
  BY <1>1, <1>2, PTL DEF Spec

-----------------------------------------------------------------------------
(***************************************************************************)
(* The identity of a bound client.  BoundIdentity is not inductive: that   *)
(* the app key stored in AdoptAppKey fits the stored client id and private *)
(* key depends on the response being the answer to a request made with     *)
(* them, and on nothing having replaced them since.  IdentityInv follows   *)
(* the identity along the query: payload, request, answer, response.       *)
(***************************************************************************)

\* The service knows the stored identity, and app is its application.
Owned(app) ==
  /\ app \in Token
  /\ cfg.clientId = app
  /\ cfg.privateKey # None
  /\ registered[app] = cfg.privateKey

\* While init makes a new identity there is no app key.
Renewing == {"delPrivate", "delApp", "setId", "setPrivate"}

IdentityInv ==
  /\ BoundIdentity
  /\ pc \in Renewing => ~Bound
  /\ pc \in {"post", "await"} => payload.id \in Token /\ cfg.clientId = payload.id
  /\ call # None => /\ pc = "await"
                    /\ call.id = cfg.clientId
                    /\ call.id \in Token
                    /\ call.sign = cfg.privateKey
  /\ reply # None => pc = "await" /\ call = None
  /\ reply # None /\ reply.status = "ok" => Owned(reply.app)
  /\ pc \in {"fetched", "dropKey", "owner"} => Owned(got.app)
  /\ \A r \in late : r.id \in Token

LEMMA IdentityInit == Init => IdentityInv
<1> SUFFICES ASSUME Init PROVE IdentityInv
  OBVIOUS
<1>1. cfg.appKey = None
  BY DEF Init, EmptyConfig
<1> QED
  BY <1>1 DEF Init, IdentityInv, BoundIdentity, Bound, Renewing

\* What a step that leaves the identity and its registration alone keeps.
LEMMA OwnedKept ==
  ASSUME NEW app, Owned(app),
         cfg'.clientId = cfg.clientId, cfg'.privateKey = cfg.privateKey,
         registered' = registered
  PROVE  Owned(app)'
BY DEF Owned

LEMMA BoundIdentityKept ==
  ASSUME BoundIdentity, cfg'.appKey = cfg.appKey,
         cfg'.clientId = cfg.clientId, cfg'.privateKey = cfg.privateKey,
         registered' = registered
  PROVE  BoundIdentity'
BY DEF BoundIdentity, Bound

LEMMA IdentityStartup ==
  ASSUME TypeOK, IdentityInv, AnyStart \/ Startup
  PROVE  IdentityInv'
<1> USE DEF config, network, service
<1>c. cfg \in Config
  BY DEF TypeOK
<1>1. CASE AnyStart
  BY <1>1 DEF AnyStart, Start, IdentityInv, BoundIdentity, Bound, Renewing
<1>2. CASE ArgsToConfig
  BY <1>2, <1>c DEF ArgsToConfig, IdentityInv, BoundIdentity, Bound, Renewing,
                    Config
<1>3. CASE CheckKeyId
  BY <1>3, <1>c DEF CheckKeyId, IdentityInv, BoundIdentity, Bound, Renewing,
                    Config
<1>4. ASSUME NEW kind \in Failure, pc = "init", StartFails(kind)
      PROVE  IdentityInv'
  BY <1>4 DEF StartFails, IdentityInv, BoundIdentity, Bound, Renewing
<1>5. CASE RejectToken
  BY <1>4, <1>5 DEF RejectToken, Failure
<1>6. CASE NoTokenFound
  BY <1>4, <1>6 DEF NoTokenFound, Failure
<1>7. CASE AlreadyBound
  BY <1>7, <1>c DEF AlreadyBound, IdentityInv, BoundIdentity, Bound, Renewing,
                    Config
<1>8. CASE DeleteClientId
  <2>1. ~Bound
    BY <1>8 DEF DeleteClientId, DifferentToken, UnboundToken, IdentityInv,
                BoundIdentity, Bound
  <2>2. ~Bound'
    BY <1>8, <1>c, <2>1 DEF DeleteClientId, Bound, Config
  <2> QED
    BY <1>8, <2>2 DEF DeleteClientId, IdentityInv, BoundIdentity, Renewing
<1>9. ASSUME DeletePrivateKey \/ DeleteAppKey \/ SetClientId \/ SetPrivateKey
      PROVE  IdentityInv'
  <2>1. ~Bound'
    BY <1>9, <1>c DEF DeletePrivateKey, DeleteAppKey, SetClientId,
         SetPrivateKey, IdentityInv, Bound, Renewing, Config
  <2> QED
    BY <1>9, <2>1 DEF DeletePrivateKey, DeleteAppKey, SetClientId,
         SetPrivateKey, IdentityInv, BoundIdentity, Renewing
<1> QED
  BY <1>1, <1>2, <1>3, <1>5, <1>6, <1>7, <1>8, <1>9 DEF Startup

LEMMA IdentityPrepare ==
  ASSUME TypeOK, IdentityInv, NEW r \in {1, 2}, PrepareGet(r),
         pc \in {"ready", "refetch"}
  PROVE  IdentityInv'
<1> USE DEF config, network, service
<1>1. cfg.clientId \in Token \cup {None}
  BY DEF TypeOK, Config, OptToken
<1> QED
  BY <1>1 DEF PrepareGet, CallReturns, IdentityInv, BoundIdentity, Bound,
              Renewing

LEMMA IdentityFetch ==
  ASSUME TypeOK, IdentityInv, Fetch, UseCache = FALSE
  PROVE  IdentityInv'
<1> USE DEF config, network, service
<1>c. cfg \in Config
  BY DEF TypeOK
<1>1. CASE Send
  <2>1. /\ cfg'.appKey = cfg.appKey
        /\ cfg'.clientId = cfg.clientId
        /\ cfg'.privateKey = cfg.privateKey
    BY <1>1, <1>c DEF Send, Config
  <2> QED
    BY <1>1, <2>1 DEF Send, CallReturns, IdentityInv, BoundIdentity, Bound,
                      Renewing
<1>2. CASE ReceiveOk
  <2>1. Owned(got.app)'
    BY <1>2 DEF ReceiveOk, IdentityInv, Owned
  <2> QED
    BY <1>2, <2>1 DEF ReceiveOk, IdentityInv, BoundIdentity, Bound, Renewing
<1>3. CASE UseCachedReply
  BY <1>3 DEF UseCachedReply
<1>4. CASE SwitchKey
  BY <1>4, <1>c DEF SwitchKey, IdentityInv, BoundIdentity, Bound, Renewing,
                    Config
<1>5. CASE PostFails
  BY <1>5 DEF PostFails, CallReturns, IdentityInv, BoundIdentity, Bound,
              Renewing
<1>6. CASE NoClientKey
  BY <1>6 DEF NoClientKey, CallReturns, IdentityInv, BoundIdentity, Bound,
              Renewing
<1>7. CASE AdoptAppKey
  <2>1. Owned(got.app)
    BY <1>7 DEF AdoptAppKey, IdentityInv
  <2>2. /\ cfg'.appKey = got.app
        /\ cfg'.clientId = cfg.clientId
        /\ cfg'.privateKey = cfg.privateKey
    BY <1>7, <1>c DEF AdoptAppKey, Config
  <2>3. BoundIdentity'
    BY <1>7, <2>1, <2>2 DEF AdoptAppKey, BoundIdentity, Owned
  <2>4. Owned(got.app)'
    BY <1>7, <2>1, <2>2 DEF AdoptAppKey, Owned
  <2> QED
    BY <1>7, <2>3, <2>4 DEF AdoptAppKey, IdentityInv, Renewing
<1>8. CASE DropClientKey
  <2>1. /\ cfg'.appKey = cfg.appKey
        /\ cfg'.clientId = cfg.clientId
        /\ cfg'.privateKey = cfg.privateKey
    BY <1>8, <1>c DEF DropClientKey, Config
  <2>2. Owned(got.app)'
    BY <1>8, <2>1 DEF DropClientKey, IdentityInv, Owned
  <2> QED
    BY <1>8, <2>1, <2>2 DEF DropClientKey, IdentityInv, BoundIdentity, Bound,
                            Renewing
<1>9. CASE AppKeyUndecryptable
  <2>1. Owned(got.app)'
    BY <1>9 DEF AppKeyUndecryptable, IdentityInv, Owned
  <2> QED
    BY <1>9, <2>1 DEF AppKeyUndecryptable, IdentityInv, BoundIdentity, Bound,
                      Renewing
<1>10. CASE SetOwnerKey
  <2>1. /\ cfg'.appKey = cfg.appKey
        /\ cfg'.clientId = cfg.clientId
        /\ cfg'.privateKey = cfg.privateKey
    BY <1>10, <1>c DEF SetOwnerKey, Config
  <2> QED
    BY <1>10, <2>1 DEF SetOwnerKey, CallReturns, IdentityInv, BoundIdentity,
                       Bound, Renewing
<1>11. CASE Deliver
  BY <1>11 DEF Deliver, CallReturns, IdentityInv, BoundIdentity, Bound,
               Renewing
<1>12. CASE Refetch
  BY <1>12, IdentityPrepare DEF Refetch
<1> QED
  BY <1>1, <1>2, <1>3, <1>4, <1>5, <1>6, <1>7, <1>8, <1>9, <1>10, <1>11, <1>12
     DEF Fetch

\* A registration is made once: one that is there is not changed.
LEMMA RegisteredOnce ==
  ASSUME TypeOK, NEW t \in Token, registered[t] # None,
         Serve \/ Environment
  PROVE  registered'[t] = registered[t]
<1> USE DEF service
<1>1. registered \in [Token -> KeyPair \cup {None}]
  BY DEF TypeOK
<1>2. CASE Serve
  BY <1>1, <1>2 DEF Serve, ServerAsksKey, ServerBinds, ServerAnswers,
                    ServerDenies, NewDevice
<1>3. CASE Environment
  BY <1>1, <1>3 DEF Environment, Crash, TransportError, ServerFails, LateRequest,
                    RequestLost, RotateServerKey, PurgeCache, NewDevice
<1> QED BY <1>2, <1>3

LEMMA IdentityServe ==
  ASSUME TypeOK, IdentityInv, Serve \/ Environment
  PROVE  IdentityInv'
<1> USE ConstantsAssumption
      DEF ConstantsAssumption, config, process, network, service
<1>1. cfg' = cfg
  BY DEF Serve, Environment, ServerAsksKey, ServerBinds, ServerAnswers,
         ServerDenies, Answer, Crash, TransportError, ServerFails,
         LateRequest, RequestLost, RotateServerKey, PurgeCache
<1>2. ASSUME NEW app, Owned(app)
      PROVE  /\ app \in Token
             /\ cfg'.clientId = app
             /\ cfg'.privateKey # None
             /\ registered'[app] = cfg'.privateKey
  BY <1>1, <1>2, RegisteredOnce DEF Owned
<1>g. ASSUME got' = got, pc' = pc
      PROVE  (pc \in {"fetched", "dropKey", "owner"} => Owned(got.app))'
  <2>1. pc \in {"fetched", "dropKey", "owner"} => Owned(got.app)
    BY DEF IdentityInv
  <2> QED
    BY <1>2, <1>g, <2>1 DEF Owned
<1>r. ASSUME reply' = reply
      PROVE  (reply # None /\ reply.status = "ok" => Owned(reply.app))'
  <2>1. reply # None /\ reply.status = "ok" => Owned(reply.app)
    BY DEF IdentityInv
  <2> QED
    BY <1>2, <1>r, <2>1 DEF Owned
<1>3. BoundIdentity'
  <2>1. SUFFICES ASSUME Bound'
                 PROVE  BoundIdentity'
    BY DEF BoundIdentity
  <2>2. Bound /\ cfg.clientId \in Token /\ registered[cfg.clientId] # None
    BY <2>1, <1>1 DEF Bound, IdentityInv, BoundIdentity, TypeOK, Config,
                      OptToken
  <2> QED
    BY <1>1, <2>2, RegisteredOnce DEF IdentityInv, BoundIdentity, Bound
<1>4. ASSUME NEW rep, Answer(rep), call # None,
             rep.status = "ok" => /\ rep.app \in Token
                                  /\ cfg'.clientId = rep.app
                                  /\ cfg'.privateKey # None
                                  /\ registered'[rep.app] = cfg'.privateKey
      PROVE  IdentityInv'
  <2>1. (reply # None /\ reply.status = "ok" => Owned(reply.app))'
    BY <1>4 DEF Answer, Owned
  <2>2. got' = got /\ pc' = pc /\ late' = late /\ payload' = payload
        /\ call' = None
    BY <1>4 DEF Answer
  <2>3. (pc \in {"fetched", "dropKey", "owner"} => Owned(got.app))'
    BY <1>g, <2>2
  <2>4. pc = "await"
    BY <1>4 DEF IdentityInv
  <2> QED
    BY <1>1, <1>3, <2>1, <2>2, <2>3, <2>4 DEF IdentityInv, Bound, Renewing
<1>5. CASE ServerAsksKey
  BY <1>4, <1>5 DEF ServerAsksKey, KeyReply
<1>6. CASE ServerDenies
  BY <1>4, <1>6 DEF ServerDenies, ErrorReply
<1>7. CASE ServerFails
  BY <1>4, <1>7 DEF ServerFails, ErrorReply, KeyReply
<1>8. CASE ServerAnswers
  <2>1. Owned(call.id)
    BY <1>8 DEF ServerAnswers, KnownDevice, IdentityInv, Owned
  <2> QED BY <1>2, <1>4, <1>8, <2>1 DEF ServerAnswers, OkReply
<1>9. CASE ServerBinds
  <2>1. /\ call.id \in Token
        /\ cfg.clientId = call.id
        /\ call.pub # None /\ call.pub = cfg.privateKey
    BY <1>9 DEF ServerBinds, NewDevice, IdentityInv
  <2>2. registered'[call.id] = call.pub
    BY <1>9, <2>1 DEF ServerBinds, TypeOK
  <2> QED BY <1>1, <1>4, <1>9, <2>1, <2>2 DEF ServerBinds, OkReply
<1>10. CASE LateRequest \/ RequestLost \/ RotateServerKey \/ PurgeCache
  <2>1. /\ UNCHANGED <<pc, payload, got, call, reply>>
        /\ late' \subseteq late
    BY <1>10 DEF LateRequest, RequestLost, RotateServerKey, PurgeCache
  <2>2. (reply # None /\ reply.status = "ok" => Owned(reply.app))'
    BY <1>r, <2>1
  <2>3. (pc \in {"fetched", "dropKey", "owner"} => Owned(got.app))'
    BY <1>g, <2>1
  <2> QED
    BY <1>1, <1>3, <2>1, <2>2, <2>3 DEF IdentityInv, Bound, Renewing
<1>11. CASE Crash \/ TransportError
  <2>1. /\ pc' \in {"off", "ready"}
        /\ call' = None /\ reply' = None
        /\ late' \in {late, late \cup ({call} \ {None})}
    BY <1>11 DEF Crash, TransportError, CallReturns
  <2>2. \A r \in late' : r.id \in Token
    BY <2>1 DEF IdentityInv
  <2> QED
    BY <1>1, <1>3, <2>1, <2>2 DEF IdentityInv, Renewing
<1> QED
  BY <1>5, <1>6, <1>7, <1>8, <1>9, <1>10, <1>11 DEF Serve, Environment

LEMMA IdentityNext ==
  ASSUME TypeOK, IdentityInv, [Next]_vars, UseCache = FALSE
  PROVE  IdentityInv'
<1>1. CASE GetSecrets
  BY <1>1, IdentityPrepare DEF GetSecrets
<1>2. CASE UNCHANGED vars
  BY <1>2 DEF vars, config, process, network, service, IdentityInv,
              BoundIdentity, Bound, Renewing, Owned
<1> QED
  BY <1>1, <1>2, IdentityStartup, IdentityFetch, IdentityServe DEF Next

\* Without a cache the app key of a configuration always comes with the
\* client id it was issued for and the private key the service knows.
THEOREM BoundIdentityHolds ==
  ASSUME UseCache = FALSE
  PROVE  Spec => []BoundIdentity
<1>1. Init => IdentityInv
  BY IdentityInit
<1>2. TypeOK /\ IdentityInv /\ [Next]_vars => IdentityInv'
  BY IdentityNext
<1>3. IdentityInv => BoundIdentity
  BY DEF IdentityInv
<1> QED
  BY <1>1, <1>2, <1>3, TypeCorrect, PTL DEF Spec

-----------------------------------------------------------------------------
(* The identity, once there, stays, cache or not.  A cached response can     *)
(* bring the app key of another identity only to a client that still has a  *)
(* client key to decrypt it with, and a bound one has none left by the time *)
(* it asks for secrets.                                                     *)

KeptInv ==
  /\ Bound => cfg.clientId # None
  /\ pc \in Renewing => ~Bound
  /\ pc \in FetchPc => cfg.clientId # None
  /\ pc \in ({"ready"} \cup FetchPc) \ {"dropKey"} =>
       (Bound => cfg.clientKey = None)

LEMMA KeptByStep ==
  ASSUME TypeOK, KeptInv, [Next]_vars, Bound
  PROVE  /\ cfg'.appKey = cfg.appKey
         /\ cfg'.clientId = cfg.clientId
         /\ cfg'.privateKey = cfg.privateKey
<1> USE DEF config
<1>c. cfg \in Config
  BY DEF TypeOK
<1>1. CASE UNCHANGED vars
  BY <1>1 DEF vars
<1>2. CASE AnyStart
  BY <1>2 DEF AnyStart, Start
<1>3. CASE Startup
  <2>1. CASE ArgsToConfig \/ CheckKeyId \/ AlreadyBound
    BY <2>1, <1>c DEF ArgsToConfig, CheckKeyId, AlreadyBound, Config
  <2>2. CASE RejectToken \/ NoTokenFound
    BY <2>2 DEF RejectToken, NoTokenFound, StartFails
  <2>3. ~DeleteClientId
    BY DEF DeleteClientId, DifferentToken, UnboundToken, KeptInv, Bound
  <2>4. ~(DeletePrivateKey \/ DeleteAppKey \/ SetClientId \/ SetPrivateKey)
    BY DEF DeletePrivateKey, DeleteAppKey, SetClientId, SetPrivateKey,
           KeptInv, Renewing
  <2> QED BY <1>3, <2>1, <2>2, <2>3, <2>4 DEF Startup
<1>4. CASE GetSecrets
  BY <1>4 DEF GetSecrets, PrepareGet
<1>5. CASE Fetch
  <2>1. ~AdoptAppKey
    BY DEF AdoptAppKey, KeptInv, FetchPc
  <2>2. CASE Send \/ SwitchKey \/ DropClientKey \/ SetOwnerKey
    BY <2>2, <1>c DEF Send, SwitchKey, DropClientKey, SetOwnerKey, Config
  <2>3. CASE ReceiveOk \/ PostFails \/ NoClientKey
             \/ AppKeyUndecryptable \/ Deliver \/ Refetch \/ UseCachedReply
    BY <2>3 DEF ReceiveOk, PostFails, NoClientKey, UseCachedReply,
                AppKeyUndecryptable, Deliver, Refetch, PrepareGet
  <2> QED BY <1>5, <2>1, <2>2, <2>3 DEF Fetch
<1>6. CASE Serve \/ Environment
  BY <1>6 DEF Serve, Environment, ServerAsksKey, ServerBinds, ServerAnswers,
     ServerDenies, Answer, Crash, TransportError, ServerFails, LateRequest,
     RequestLost, RotateServerKey, PurgeCache
<1> QED
  BY <1>1, <1>2, <1>3, <1>4, <1>5, <1>6 DEF Next

\* A start leaves no client key beside an app key.
LEMMA KeptStartup ==
  ASSUME TypeOK, KeptInv, AnyStart \/ Startup
  PROVE  KeptInv'
<1> USE DEF config, KeptInv, Renewing, FetchPc, Bound
<1>c. cfg \in Config
  BY DEF TypeOK
<1>1. CASE AnyStart
  BY <1>1 DEF AnyStart, Start
<1>2. CASE ArgsToConfig
  BY <1>2, <1>c DEF ArgsToConfig, Config
<1>3. CASE CheckKeyId
  BY <1>3, <1>c DEF CheckKeyId, Config
<1>4. CASE RejectToken \/ NoTokenFound
  BY <1>4 DEF RejectToken, NoTokenFound, StartFails
<1>5. CASE AlreadyBound
  BY <1>5, <1>c DEF AlreadyBound, Config
<1>6. CASE DeleteClientId
  <2>1. cfg.appKey = None
    BY <1>6 DEF DeleteClientId, DifferentToken, UnboundToken
  <2> QED BY <1>6, <1>c, <2>1 DEF DeleteClientId, Config
<1>7. CASE DeletePrivateKey \/ DeleteAppKey \/ SetClientId \/ SetPrivateKey
  BY <1>7, <1>c DEF DeletePrivateKey, DeleteAppKey, SetClientId, SetPrivateKey,
                    Config
<1> QED BY <1>1, <1>2, <1>3, <1>4, <1>5, <1>6, <1>7 DEF Startup

\* A query keeps the client id it was made with.
LEMMA KeptQuery ==
  ASSUME TypeOK, KeptInv, GetSecrets \/ Fetch
  PROVE  KeptInv'
<1> USE DEF config, KeptInv, Renewing, FetchPc, Bound
<1>c. cfg \in Config
  BY DEF TypeOK
<1>1. CASE GetSecrets \/ Refetch
  BY <1>1 DEF GetSecrets, Refetch, PrepareGet, CallReturns
<1>2. CASE Send \/ SwitchKey
  BY <1>2, <1>c DEF Send, SwitchKey, CallReturns, Config
<1>3. CASE ReceiveOk \/ UseCachedReply \/ PostFails
  BY <1>3 DEF ReceiveOk, UseCachedReply, PostFails, CallReturns
<1>4. CASE NoClientKey \/ AppKeyUndecryptable \/ Deliver
  BY <1>4 DEF NoClientKey, AppKeyUndecryptable, Deliver, CallReturns
<1>5. CASE AdoptAppKey \/ DropClientKey
  BY <1>5, <1>c DEF AdoptAppKey, DropClientKey, Config
<1>6. CASE SetOwnerKey
  BY <1>6, <1>c DEF SetOwnerKey, CallReturns, Config
<1> QED BY <1>1, <1>2, <1>3, <1>4, <1>5, <1>6 DEF Fetch

LEMMA KeptNext ==
  ASSUME TypeOK, KeptInv, [Next]_vars
  PROVE  KeptInv'
<1>1. CASE UNCHANGED vars
  BY <1>1 DEF vars, config, process, KeptInv, Bound
<1>2. CASE Serve
  BY <1>2 DEF Serve, ServerAsksKey, ServerBinds, ServerAnswers, ServerDenies,
     Answer, config, process, KeptInv, Bound
<1>3. CASE Environment
  BY <1>3 DEF Environment, Crash, TransportError, ServerFails, Answer,
     LateRequest, RequestLost, RotateServerKey, PurgeCache, CallReturns,
     config, process, KeptInv, Bound, Renewing, FetchPc
<1> QED BY <1>1, <1>2, <1>3, KeptStartup, KeptQuery DEF Next

\* The invariant holds of every state, for every setting of the constants.
LEMMA KeptAlways == Spec => []KeptInv
<1>1. Init => KeptInv
  BY DEF Init, EmptyConfig, KeptInv, Bound, Renewing, FetchPc
<1>2. TypeOK /\ KeptInv /\ [Next]_vars => KeptInv'
  BY KeptNext
<1> QED BY <1>1, <1>2, TypeCorrect, PTL DEF Spec

\* No step of a start, a query or its surroundings takes the app key, the
\* client id or the private key of a bound configuration away, whatever the
\* cache answers with.
THEOREM IdentityIsKept == Spec => IdentityKept
<1>1. TypeOK /\ KeptInv /\ [Next]_vars
        => [Bound => /\ cfg'.appKey = cfg.appKey
                     /\ cfg'.clientId = cfg.clientId
                     /\ cfg'.privateKey = cfg.privateKey]_vars
  BY KeptByStep
<1> QED
  BY <1>1, KeptAlways, TypeCorrect, PTL DEF Spec, IdentityKept

-----------------------------------------------------------------------------
(* The server key id                                                        *)

\* After the checks of a start, and with a cache or without, no answer of the
\* service leaves a server key id the client has no key for.
THEOREM KeyIdAlwaysUsable == Spec => []KeyIdUsable
<1>1. Init => KeyIdUsable
  BY DEF Init, KeyIdUsable
<1>2. TypeOK /\ KeyIdUsable /\ [Next]_vars => KeyIdUsable'
  <2> SUFFICES ASSUME TypeOK, KeyIdUsable, [Next]_vars PROVE KeyIdUsable'
    OBVIOUS
  <2> USE ConstantsAssumption
        DEF ConstantsAssumption, config, network, process, service
  <2>c. cfg \in Config
    BY DEF TypeOK
  <2>1. CASE UNCHANGED vars
    BY <2>1 DEF vars, KeyIdUsable
  <2>2. CASE AnyStart
    BY <2>2 DEF AnyStart, Start, KeyIdUsable
  <2>3. CASE Startup
    <3>1. CASE ArgsToConfig
      BY <3>1 DEF ArgsToConfig, KeyIdUsable
    <3>2. CASE CheckKeyId
      BY <3>2, <2>c DEF CheckKeyId, KeyIdUsable, Config
    <3>3. CASE RejectToken \/ NoTokenFound
      BY <3>3 DEF RejectToken, NoTokenFound, StartFails, KeyIdUsable
    <3>4. CASE AlreadyBound \/ DeleteClientId \/ DeletePrivateKey
               \/ DeleteAppKey \/ SetClientId \/ SetPrivateKey
      BY <3>4, <2>c DEF AlreadyBound, DeleteClientId, DeletePrivateKey,
         DeleteAppKey, SetClientId, SetPrivateKey, KeyIdUsable, Config
    <3> QED BY <2>3, <3>1, <3>2, <3>3, <3>4 DEF Startup
  <2>4. CASE GetSecrets
    BY <2>4 DEF GetSecrets, PrepareGet, KeyIdUsable
  <2>5. CASE Fetch
    <3>1. CASE Send \/ SwitchKey
      BY <3>1, <2>c DEF Send, CanSend, TransmissionKeyId, CallReturns, SwitchKey,
                        KeyIdUsable, Config
    <3>2. CASE AdoptAppKey \/ DropClientKey \/ SetOwnerKey
      BY <3>2, <2>c DEF AdoptAppKey, DropClientKey, SetOwnerKey, KeyIdUsable,
                        Config
    <3>3. CASE ReceiveOk \/ PostFails \/ NoClientKey
               \/ AppKeyUndecryptable \/ Deliver \/ Refetch \/ UseCachedReply
      BY <3>3 DEF ReceiveOk, PostFails, NoClientKey, UseCachedReply,
                  AppKeyUndecryptable, Deliver, Refetch, PrepareGet,
                  KeyIdUsable
    <3> QED BY <2>5, <3>1, <3>2, <3>3 DEF Fetch
  <2>6. CASE Serve
    BY <2>6 DEF Serve, ServerAsksKey, ServerBinds, ServerAnswers,
       ServerDenies, Answer, KeyIdUsable
  <2>7. CASE Environment
    BY <2>7 DEF Environment, Crash, TransportError, CallReturns, ServerFails,
       Answer, LateRequest, RequestLost, RotateServerKey, PurgeCache, KeyIdUsable
  <2> QED
    BY <2>1, <2>2, <2>3, <2>4, <2>5, <2>6, <2>7 DEF Next
<1> QED
  BY <1>1, <1>2, TypeCorrect, PTL DEF Spec

-----------------------------------------------------------------------------
(* Refinement of DeviceBinding                                              *)

LEMMA RefinementInit == Init => Promise!Init
<1> SUFFICES ASSUME Init PROVE Promise!Init
  OBVIOUS
<1>1. cfg.appKey = None
  BY DEF Init, EmptyConfig
<1> QED
  BY <1>1 DEF Init, Promise!Init, Promise!Unbound, Device, Bound

\* Requests carry a client id the service can know; a device key is a key.
LEMMA RedeemStep ==
  ASSUME TypeOK, NEW r \in Request, r.id \in Token, NewDevice(r),
         registered' = [registered EXCEPT ![r.id] = r.pub],
         Device' = Device
  PROVE  Promise!Next
<1>1. r.pub \in KeyPair
  BY DEF Request, NewDevice
<1>2. Promise!Redeem(r.id, r.pub)
  BY DEF Promise!Redeem, NewDevice
<1> QED
  BY <1>1, <1>2 DEF Promise!Next

LEMMA RefinementNext ==
  ASSUME TypeOK, IdentityInv, KeptInv, [Next]_vars
  PROVE  [Promise!Next]_<<Device, registered>>
<1> USE DEF config, process, network, service
<1>c. cfg \in Config
  BY DEF TypeOK
<1>1. ASSUME cfg' = cfg
      PROVE  Device' = Device
  BY <1>1 DEF Device, Bound
<1>2. CASE UNCHANGED vars
  BY <1>1, <1>2 DEF vars
<1>3. CASE AdoptAppKey
  <2>1. registered' = registered /\ Owned(got.app)
    BY <1>3 DEF AdoptAppKey, IdentityInv
  <2>2. CASE Bound
    <3>1. Device' = Device
      BY <1>3, <1>c, <2>1, <2>2
         DEF AdoptAppKey, Device, Bound, IdentityInv, BoundIdentity, Owned,
             Config
    <3> QED BY <2>1, <3>1
  <2>3. CASE ~Bound
    <3>1. Device = None
      BY <2>3 DEF Device
    <3>2. Device' = [id |-> got.app, key |-> registered[got.app]]
      BY <1>3, <1>c, <2>1 DEF AdoptAppKey, Device, Bound, Owned, Config
    <3>3. got.app \in Token /\ registered[got.app] # None
      BY <2>1 DEF Owned
    <3>4. Promise!Bind(got.app)
      BY <2>1, <3>1, <3>2, <3>3 DEF Promise!Bind, Promise!Unbound
    <3> QED BY <3>3, <3>4 DEF Promise!Next
  <2> QED BY <2>2, <2>3
<1>4. CASE ServerBinds
  <2>1. cfg' = cfg /\ call \in Request /\ call.id \in Token /\ NewDevice(call)
        /\ registered' = [registered EXCEPT ![call.id] = call.pub]
    BY <1>4 DEF ServerBinds, Answer, TypeOK, IdentityInv
  <2> QED BY <1>1, <2>1, RedeemStep
<1>5. CASE LateRequest
  <2> PICK r \in late : LateRequest!(r)
    BY <1>5 DEF LateRequest
  <2>1. cfg' = cfg /\ r \in Request /\ r.id \in Token
    BY DEF TypeOK, IdentityInv
  <2>2. CASE Accepted(r) /\ NewDevice(r)
    BY <1>1, <2>1, <2>2, RedeemStep
  <2>3. CASE ~(Accepted(r) /\ NewDevice(r))
    BY <1>1, <2>1, <2>3
  <2> QED BY <2>2, <2>3
<1>6. CASE \/ AnyStart \/ Startup \/ GetSecrets
           \/ Fetch /\ ~AdoptAppKey
           \/ Serve /\ ~ServerBinds
           \/ Environment /\ ~LateRequest
  <2>1. registered' = registered
    BY <1>6 DEF AnyStart, Start, Startup, ArgsToConfig, CheckKeyId,
       RejectToken, NoTokenFound, StartFails, AlreadyBound, DeleteClientId,
       DeletePrivateKey, DeleteAppKey, SetClientId, SetPrivateKey, GetSecrets,
       PrepareGet, Fetch, Send, ReceiveOk, UseCachedReply, SwitchKey,
       PostFails, NoClientKey, DropClientKey, AppKeyUndecryptable,
       SetOwnerKey, Deliver, Refetch, Serve, ServerAsksKey, ServerAnswers,
       ServerDenies, Answer, Environment, Crash, TransportError, ServerFails,
       RequestLost, RotateServerKey, PurgeCache
  <2>2. CASE Bound
    <3>1. Device' = Device
      BY <2>2, KeptByStep DEF Device, Bound
    <3> QED BY <2>1, <3>1
  <2>3. CASE ~Bound
    <3>1. ~Bound'
      <4>1. CASE AnyStart \/ GetSecrets \/ Serve \/ Environment
        BY <2>3, <4>1 DEF AnyStart, Start, GetSecrets, PrepareGet, Serve,
           ServerAsksKey, ServerBinds, ServerAnswers, ServerDenies, Answer,
           Environment, Crash, TransportError, ServerFails, LateRequest,
           RequestLost, RotateServerKey, PurgeCache, Bound
      <4>2. CASE Startup
        BY <2>3, <4>2, <1>c DEF Startup, ArgsToConfig, CheckKeyId,
           RejectToken, NoTokenFound, StartFails, AlreadyBound,
           DeleteClientId, DeletePrivateKey, DeleteAppKey, SetClientId,
           SetPrivateKey, Bound, Config
      <4>3. CASE Fetch /\ ~AdoptAppKey
        BY <2>3, <4>3, <1>c DEF Fetch, Send, ReceiveOk, UseCachedReply,
           SwitchKey, PostFails, NoClientKey, DropClientKey,
           AppKeyUndecryptable, SetOwnerKey, Deliver, Refetch, PrepareGet,
           Bound, Config
      <4> QED BY <1>6, <4>1, <4>2, <4>3
    <3>2. Device' = Device
      BY <2>3, <3>1 DEF Device
    <3> QED BY <2>1, <3>2
  <2> QED BY <2>2, <2>3
<1> QED
  BY <1>2, <1>3, <1>4, <1>5, <1>6 DEF Next, Fetch, Serve, Environment

\* Without a cache the client binds the way DeviceBinding promises: once, and
\* to the key pair the service registered for the token.
THEOREM BindingImplemented ==
  ASSUME UseCache = FALSE
  PROVE  Spec => ImplementsBinding
<1>1. Init => IdentityInv /\ Promise!Init
  BY IdentityInit, RefinementInit
<1>2. TypeOK /\ IdentityInv /\ [Next]_vars => IdentityInv'
  BY IdentityNext
<1>3. TypeOK /\ IdentityInv /\ KeptInv /\ [Next]_vars
        => [Promise!Next]_<<Device, registered>>
  BY RefinementNext
<1> QED
  BY <1>1, <1>2, <1>3, TypeCorrect, KeptAlways, PTL
     DEF Spec, ImplementsBinding, Promise!Spec

-----------------------------------------------------------------------------
(* Readable records                                                         *)

\* Where the token of the configuration is the one the client id is made of.
ReadableInv ==
  /\ DeliveredReadable
  /\ pc \in StartPc \ {"args"} /\ opt.token # None => cfg.clientKey = opt.token
  /\ opt.env = None =>
       /\ pc = "setPrivate" => cfg.clientKey = cfg.clientId
       /\ pc \in {"ready"} \cup FetchPc => cfg.clientKey \in {None, cfg.clientId}
       /\ pc \in {"dropKey", "owner"} => secret = got.app

LEMMA ReadableStartup ==
  ASSUME TypeOK, ReadableInv, AnyStart \/ Startup
  PROVE  ReadableInv'
<1> USE DEF config, ReadableInv, DeliveredReadable, StartPc, FetchPc
<1>c. cfg \in Config
  BY DEF TypeOK
<1>1. CASE AnyStart
  BY <1>1 DEF AnyStart, Start, Failed
<1>2. CASE ArgsToConfig
  BY <1>2, <1>c DEF ArgsToConfig, Config
<1>3. CASE CheckKeyId
  BY <1>3, <1>c DEF CheckKeyId, Config
<1>4. CASE RejectToken \/ NoTokenFound
  BY <1>4 DEF RejectToken, NoTokenFound, StartFails, Failed
<1>5. CASE AlreadyBound
  BY <1>5, <1>c DEF AlreadyBound, Config
<1>6. CASE DeleteClientId \/ DeletePrivateKey \/ DeleteAppKey
  BY <1>6, <1>c DEF DeleteClientId, DeletePrivateKey, DeleteAppKey, Config
<1>7. CASE SetClientId
  BY <1>7, <1>c DEF SetClientId, LoadSecretKey, Config
<1>8. CASE SetPrivateKey
  BY <1>8, <1>c DEF SetPrivateKey, Config
<1> QED
  BY <1>1, <1>2, <1>3, <1>4, <1>5, <1>6, <1>7, <1>8 DEF Startup

LEMMA ReadableQuery ==
  ASSUME TypeOK, IdentityInv, ReadableInv, GetSecrets \/ Fetch,
         UseCache = FALSE
  PROVE  ReadableInv'
<1> USE DEF config, ReadableInv, DeliveredReadable, StartPc, FetchPc
<1>c. cfg \in Config
  BY DEF TypeOK
<1>1. CASE GetSecrets \/ Refetch
  BY <1>1 DEF GetSecrets, Refetch, PrepareGet, CallReturns, Failed
<1>2. CASE Send
  BY <1>2, <1>c DEF Send, CallReturns, Failed, Config
<1>3. CASE ReceiveOk
  BY <1>3 DEF ReceiveOk
<1>4. CASE UseCachedReply
  BY <1>4 DEF UseCachedReply
<1>5. CASE SwitchKey
  BY <1>5, <1>c DEF SwitchKey, Config
<1>6. CASE PostFails \/ NoClientKey
  BY <1>6 DEF PostFails, NoClientKey, CallReturns, Failed
<1>7. CASE AdoptAppKey
  BY <1>7, <1>c DEF AdoptAppKey, Config
<1>8. CASE DropClientKey
  BY <1>8, <1>c DEF DropClientKey, Config
<1>9. CASE AppKeyUndecryptable
  <2>1. cfg.clientId = got.app
    BY <1>9 DEF AppKeyUndecryptable, IdentityInv, Owned
  <2> QED BY <1>9, <2>1 DEF AppKeyUndecryptable
<1>10. CASE SetOwnerKey
  <2>1. cfg'.clientKey = cfg.clientKey /\ cfg'.clientId = cfg.clientId
    BY <1>10, <1>c DEF SetOwnerKey, Config
  <2> QED BY <1>10, <2>1 DEF SetOwnerKey, CallReturns, Delivered
<1>11. CASE Deliver
  <2>1. cfg.appKey # None => cfg.appKey = got.app
    BY <1>11 DEF Deliver, IdentityInv, BoundIdentity, Bound, Owned
  <2> QED BY <1>11, <2>1 DEF Deliver, CallReturns, Failed, Delivered
<1> QED
  BY <1>1, <1>2, <1>3, <1>4, <1>5, <1>6, <1>7, <1>8, <1>9, <1>10, <1>11
     DEF Fetch

LEMMA ReadableServe ==
  ASSUME TypeOK, ReadableInv, Serve \/ Environment
  PROVE  ReadableInv'
<1> USE DEF config, process, network, service, ReadableInv, DeliveredReadable,
            StartPc, FetchPc
<1>1. CASE Serve
  BY <1>1 DEF Serve, ServerAsksKey, ServerBinds, ServerAnswers,
     ServerDenies, Answer
<1>2. CASE Environment
  BY <1>2 DEF Environment, Crash, TransportError, CallReturns, Failed, ServerFails,
     Answer, LateRequest, RequestLost, RotateServerKey, PurgeCache
<1> QED BY <1>1, <1>2

\* Without a cache, and with no token in the environment, records are always
\* decrypted with the key of their own application.
THEOREM ReadableAlways ==
  ASSUME UseCache = FALSE
  PROVE  Spec => []DeliveredReadable
<1>1. Init => IdentityInv /\ ReadableInv
  <2>1. Init => ReadableInv
    BY DEF Init, ReadableInv, DeliveredReadable, Failed, StartPc, FetchPc
  <2> QED BY <2>1, IdentityInit
<1>2. TypeOK /\ IdentityInv /\ [Next]_vars => IdentityInv'
  BY IdentityNext
<1>3. TypeOK /\ IdentityInv /\ ReadableInv /\ [Next]_vars => ReadableInv'
  <2> SUFFICES ASSUME TypeOK, IdentityInv, ReadableInv, [Next]_vars
               PROVE  ReadableInv'
    OBVIOUS
  <2>1. CASE UNCHANGED vars
    BY <2>1 DEF vars, config, process, ReadableInv, DeliveredReadable
  <2> QED
    BY <2>1, ReadableStartup, ReadableQuery, ReadableServe DEF Next
<1>4. ReadableInv => DeliveredReadable
  BY DEF ReadableInv
<1> QED
  BY <1>1, <1>2, <1>3, <1>4, TypeCorrect, PTL DEF Spec

=============================================================================
