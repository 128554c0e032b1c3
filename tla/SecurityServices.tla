-------------------------- MODULE SecurityServices --------------------------
(***************************************************************************)
(* Secrets, keys and their audit: SecretManager over a secret provider     *)
(* (security/secrets.py), EnvelopeEncryptionService over a key provider    *)
(* (security/crypto.py), the transport policy (security/transport.py) and  *)
(* the append-only audit chain (security/audit.py, observability/audit.py).*)
(* A provider locks each of its calls; a service makes several of them and *)
(* audits in between, so the calls of two threads interleave there.        *)
(***************************************************************************)
EXTENDS Refusals, FiniteSets

CONSTANTS
  Threads,     \* callers of the services
  Readers,     \* the ones that also lease secrets
  Versions,    \* 1..n, the versions a secret or a key can have
  Endpoints    \* endpoints handed to the transport policy

VARIABLES
  secrets,     \* version -> "NONE", "ACTIVE" or "REVOKED"
  current,     \* the current secret version, 0 if none
  keys,        \* version -> "NONE", "ACTIVE", "DECRYPT_ONLY" or "REVOKED"
  active,      \* the active key version, 0 if none
  available,   \* set_available of the providers
  ops,         \* thread -> the operation it is in, and its step
  leases,      \* thread -> its lease
  revoked,     \* key versions whose revocation took effect
  audit,       \* the events of mutations in the chain
  service,     \* which of the three independent services the callers use
  transport    \* the latest decision of the transport policy

securityVars == <<secrets, current, keys, active, available, ops, leases, revoked,
                  audit, service, transport>>

providerVars == <<secrets, current, keys, active, available, revoked, service>>

Mutations == IF service = "secret" THEN {"rotateSecret", "revokeSecret"}
             ELSE {"rotateKey", "revokeKey"}

-----------------------------------------------------------------------------
(* The audit chain                                                         *)

NoOp == [kind |-> "none", step |-> "idle", version |-> 0]
NoLease == [version |-> 0, fresh |-> FALSE]

\* AuditService.record and InMemoryAuditRepository.append under a new event id:
\* the event joins the chain. Kept are the events
\* that allow a mutation; a denial changes nothing else.
Record(outcome, op) ==
  audit' = IF op.kind \in Mutations /\ outcome # "DENIED"
           THEN audit \cup {[outcome |-> outcome, kind |-> op.kind, version |-> op.version]}
           ELSE audit

\* AuditSecurityHook.record: an event that cannot be preserved (no repository,
\* no trace) is an error of the operation; nothing is appended.
AuditFails(t) ==
  /\ ops[t].step \in {"authorize", "settle"}
  /\ ops' = [ops EXCEPT ![t] = NoOp]
  /\ UNCHANGED <<providerVars, leases, audit, transport>>

\* _authorize: environment, tenant, project and purpose; a caller outside the
\* scope is denied, with an event.
Denied(t, kind, v) ==
  /\ ops[t] = NoOp
  /\ Record("DENIED", [kind |-> kind, version |-> v])
  /\ UNCHANGED <<providerVars, ops, leases, transport>>

\* An error of the provider in the middle of an operation is audited as a
\* denial, and raised.
ProviderFails(t) ==
  /\ Record("DENIED", ops[t])
  /\ ops' = [ops EXCEPT ![t] = NoOp]
  /\ UNCHANGED <<providerVars, leases, transport>>

Succeeds(t) ==
  /\ ops[t].step = "settle"
  /\ Record("SUCCESS", ops[t])
  /\ ops' = [ops EXCEPT ![t] = NoOp]
  /\ leases' = IF ops[t].kind = "resolve"
               THEN [leases EXCEPT ![t] = [version |-> ops[t].version, fresh |-> TRUE]]
               ELSE leases
  /\ UNCHANGED <<providerVars, transport>>

-----------------------------------------------------------------------------
(* Secrets                                                                 *)

CurrentError ==
  FirstRefusal(<<
    <<~available, "SECRET_PROVIDER_UNAVAILABLE">>,
    <<current = 0, "SECRET_NOT_FOUND">>,
    <<current # 0 /\ secrets[current] = "REVOKED", "SECRET_REVOKED">> >>)

RevealError(v) ==
  FirstRefusal(<<
    <<~available, "SECRET_PROVIDER_UNAVAILABLE">>,
    <<current = 0, "SECRET_NOT_FOUND">>,
    <<v # current, "SECRET_VERSION_STALE">>,
    <<secrets[v] = "REVOKED", "SECRET_REVOKED">> >>)

\* register_test_secret: the root version of a selector.
RegisterSecret(v) ==
  /\ service = "secret"
  /\ available /\ current = 0
  /\ secrets' = [secrets EXCEPT ![v] = "ACTIVE"]
  /\ current' = v
  /\ UNCHANGED <<keys, active, available, ops, leases, revoked, audit, service, transport>>

\* resolve_current: current_ref, then reveal under a second lock.
ResolveCurrent(t) ==
  /\ service = "secret"
  /\ ops[t] = NoOp
  /\ IF CurrentError # None
     THEN Denied(t, "resolve", 0)
     ELSE /\ ops' = [ops EXCEPT ![t] = [kind |-> "resolve", step |-> "reveal",
                                        version |-> current]]
          /\ UNCHANGED <<providerVars, leases, audit, transport>>

Reveal(t) ==
  /\ ops[t].step = "reveal"
  /\ IF RevealError(ops[t].version) # None
     THEN ProviderFails(t)
     ELSE /\ ops' = [ops EXCEPT ![t].step = "settle"]
          /\ UNCHANGED <<providerVars, leases, audit, transport>>

\* read: an expired lease, another user's lease or a version that is not the
\* current one any more is denied.
ReadLease(t) ==
  /\ ops[t] = NoOp
  /\ leases[t] # NoLease
  /\ IF ~leases[t].fresh \/ RevealError(leases[t].version) # None
     THEN Denied(t, "read", leases[t].version)
     ELSE /\ ops' = [ops EXCEPT ![t] = [kind |-> "read", step |-> "settle",
                                        version |-> leases[t].version]]
          /\ UNCHANGED <<providerVars, leases, audit, transport>>

LeaseExpires(t) ==
  /\ leases[t].fresh
  /\ leases' = [leases EXCEPT ![t].fresh = FALSE]
  /\ UNCHANGED <<providerVars, ops, audit, transport>>

-----------------------------------------------------------------------------
(* Mutations: an authorization event, the provider, the terminal event     *)

StartMutation(t, kind, v) ==
  /\ ops[t] = NoOp
  /\ current # 0 \/ active # 0
  /\ ops' = [ops EXCEPT ![t] = [kind |-> kind, step |-> "authorize", version |-> v]]
  /\ UNCHANGED <<providerVars, leases, audit, transport>>

\* Mutant: the provider is called before the event is written.
RecordAuthorizedLast(t) ==
  /\ ops[t].step = "authorize"
  /\ ops' = [ops EXCEPT ![t].step = "mutate"]
  /\ UNCHANGED <<providerVars, leases, audit, transport>>

\* _record_authorized: ALLOW with outcome PARTIAL.
RecordAuthorized(t) ==
  /\ ops[t].step = "authorize"
  /\ Record("PARTIAL", ops[t])
  /\ ops' = [ops EXCEPT ![t].step = "mutate"]
  /\ UNCHANGED <<providerVars, leases, transport>>

\* InMemorySecretProvider.rotate goes through current_ref: a revoked version
\* cannot be rotated away.
SecretMutationError(op) ==
  IF op.kind = "rotateSecret"
  THEN IF CurrentError # None THEN CurrentError
       ELSE FirstRefusal(<< <<secrets[op.version] # "NONE", "SECRET_VERSION_STALE">> >>)
  ELSE FirstRefusal(<<
         <<~available, "SECRET_PROVIDER_UNAVAILABLE">>,
         <<secrets[op.version] = "NONE", "SECRET_NOT_FOUND">> >>)

KeyMutationError(op) ==
  FirstRefusal(<<
    <<~available, "KEY_PROVIDER_UNAVAILABLE">>,
    <<op.kind = "rotateKey" /\ keys[op.version] # "NONE", "KEY_VERSION_STALE">>,
    <<op.kind = "revokeKey" /\ keys[op.version] = "NONE", "KEY_NOT_FOUND">> >>)

MutateSecret(t) ==
  LET op == ops[t] IN
  /\ op.step = "mutate" /\ op.kind \in {"rotateSecret", "revokeSecret"}
  /\ IF SecretMutationError(op) # None THEN ProviderFails(t)
     ELSE /\ IF op.kind = "rotateSecret"
             THEN /\ secrets' = [secrets EXCEPT ![current] = "REVOKED", ![op.version] = "ACTIVE"]
                  /\ current' = op.version
             ELSE /\ secrets' = [secrets EXCEPT ![op.version] = "REVOKED"]
                  /\ UNCHANGED current
          /\ ops' = [ops EXCEPT ![t].step = "settle"]
          /\ UNCHANGED <<keys, active, available, leases, revoked, audit, service, transport>>

\* InMemoryKeyProvider.rotate sets the predecessor to DECRYPT_ONLY, whatever
\* its state.
MutateKey(t) ==
  LET op == ops[t] IN
  /\ op.step = "mutate" /\ op.kind \in {"rotateKey", "revokeKey"}
  /\ IF KeyMutationError(op) # None THEN ProviderFails(t)
     ELSE /\ IF op.kind = "rotateKey"
             THEN /\ keys' = [keys EXCEPT ![active] = "DECRYPT_ONLY", ![op.version] = "ACTIVE"]
                  /\ active' = op.version
                  /\ UNCHANGED revoked
             ELSE /\ keys' = [keys EXCEPT ![op.version] = "REVOKED"]
                  /\ revoked' = revoked \cup {op.version}
                  /\ UNCHANGED active
          /\ ops' = [ops EXCEPT ![t].step = "settle"]
          /\ UNCHANGED <<secrets, current, available, leases, audit, service, transport>>

-----------------------------------------------------------------------------
(* Keys                                                                    *)

RegisterKey(v) ==
  /\ service = "key"
  /\ available /\ active = 0
  /\ keys' = [keys EXCEPT ![v] = "ACTIVE"]
  /\ active' = v
  /\ UNCHANGED <<secrets, current, available, ops, leases, revoked, audit, service, transport>>

\* encrypt takes the active version, decrypt the one of the envelope; one locked
\* provider call, then the event.
KeyUsable(kind, v) ==
  /\ available
  /\ IF kind = "encrypt" THEN v = active /\ keys[v] = "ACTIVE"
     ELSE keys[v] \in {"ACTIVE", "DECRYPT_ONLY"}

UseKey(t, kind, v) ==
  /\ ops[t] = NoOp
  /\ active # 0
  /\ IF ~KeyUsable(kind, v) THEN Denied(t, kind, v)
     ELSE /\ ops' = [ops EXCEPT ![t] = [kind |-> kind, step |-> "settle", version |-> v]]
          /\ UNCHANGED <<providerVars, leases, audit, transport>>

SetAvailable(up) ==
  /\ service # "transport"
  /\ available # up
  /\ available' = up
  /\ UNCHANGED <<secrets, current, keys, active, ops, leases, revoked, audit, service, transport>>

-----------------------------------------------------------------------------
(* Transport policy                                                        *)

\* TransportSecurityService._validate. Plaintext only to a loopback host in a
\* local or CI environment.
TransportAllowed(e) ==
  LET exception == e.environment \in {"LOCAL", "CI"} /\ e.loopback IN
  /\ e.wellFormed
  /\ CASE e.kind = "HTTPS" -> (e.scheme = "https" /\ ~e.unverified)
                              \/ (exception /\ e.scheme = "http")
       [] e.kind = "POSTGRES" -> e.scheme = "postgresql+asyncpg"
                                 /\ (e.verified \/ (exception /\ ~e.sslmode))
       [] e.kind = "REDIS" -> (e.scheme = "rediss" /\ e.verified)
                              \/ (exception /\ e.scheme = "redis")

ValidateTransport(e) ==
  /\ service = "transport"
  /\ transport = "none"
  /\ transport' = IF TransportAllowed(e) THEN "allowed" ELSE "denied"
  /\ Record(IF TransportAllowed(e) THEN "SUCCESS" ELSE "DENIED",
             [kind |-> "transport", version |-> 0])
  /\ UNCHANGED <<providerVars, ops, leases>>

-----------------------------------------------------------------------------
Init ==
  /\ secrets = [v \in Versions |-> "NONE"]
  /\ current = 0
  /\ keys = [v \in Versions |-> "NONE"]
  /\ active = 0
  /\ available = TRUE
  /\ ops = [t \in Threads |-> NoOp]
  /\ leases = [t \in Threads |-> NoLease]
  /\ revoked = {}
  /\ audit = {}
  /\ service \in {"secret", "key", "transport"}
  /\ transport = "none"

Next ==
  \/ RegisterSecret(1)
  \/ RegisterKey(1)
  \/ \E up \in BOOLEAN : SetAvailable(up)
  \/ \E e \in Endpoints : ValidateTransport(e)
  \/ \E t \in Readers :
       \/ ResolveCurrent(t)
       \/ Reveal(t)
       \/ ReadLease(t)
       \/ LeaseExpires(t)
  \/ \E t \in Threads :
       \/ RecordAuthorized(t)
       \/ MutateSecret(t)
       \/ MutateKey(t)
       \/ Succeeds(t)
       \/ AuditFails(t)
       \/ \E v \in Versions :
            \/ \E kind \in Mutations : StartMutation(t, kind, v)
            \/ \E kind \in {"encrypt", "decrypt"} : UseKey(t, kind, v)

Spec == Init /\ [][Next]_securityVars
-----------------------------------------------------------------------------
Authorized(kind, v) == [outcome |-> "PARTIAL", kind |-> kind, version |-> v] \in audit

\* A version leaves its state only under an authorization event of its own, and
\* no mutation is recorded as successful without one, also when the audit or the
\* provider fails in the middle and when two threads mutate at once
\* (platform-security-v1.md section 6, crypto.py 268-338).
MutationsAreAuthorized ==
  /\ \A v \in Versions :
       /\ v > 1 /\ secrets[v] # "NONE" => Authorized("rotateSecret", v)
       /\ secrets[v] = "REVOKED" =>
            \/ Authorized("revokeSecret", v)
            \/ \E w \in Versions \ {v} : secrets[w] # "NONE" /\ Authorized("rotateSecret", w)
       /\ v > 1 /\ keys[v] # "NONE" => Authorized("rotateKey", v)
       /\ v \in revoked => Authorized("revokeKey", v)
  /\ \A e \in audit : e.outcome = "SUCCESS" => Authorized(e.kind, e.version)

\* The key a revocation took effect on is never used again
\* (platform-security-v1.md: "Revoked material cannot encrypt or decrypt").
RevokedKeyIsUnusable ==
  [][\A t \in Threads :
        ops[t] # ops'[t] /\ ops'[t].kind \in {"encrypt", "decrypt"}
        => ops'[t].version \notin revoked]_securityVars
=============================================================================
