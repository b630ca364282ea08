---------------------------- MODULE Certificates ----------------------------
(***************************************************************************)
(* TLS between one unit and the operator that issues its certificates:     *)
(* PostgreSQLTLS (postgresql_tls.py), both ends of the relation in         *)
(* tls_certificates.py, and the files and the option of pgbouncer that     *)
(* charm.py derives from the secrets of the unit.                          *)
(*                                                                         *)
(* A certificate is known by the signing request it answers, and a key by  *)
(* the request it was generated for.  A hook is one step.                  *)
(* Simplifications:                                                        *)
(*  - CA, chain and certificate are written together: a certificate stands *)
(*    for all three;                                                       *)
(*  - the operator answers a request once, if it asks for it again or not; *)
(*  - a certificate can be read, and Juju has secrets;                     *)
(*  - a connection to the container that breaks while files are pushed     *)
(*    raises: push_file leaves out a file, without a word, only in a       *)
(*    container that restarts;                                             *)
(*  - the operator is another application: its handlers are those of the   *)
(*    library, its decision to issue is its own.                           *)
(***************************************************************************)
EXTENDS Naturals

CONSTANTS
  Requests,  \* at most so many signing requests are made
  Budgets    \* the disturbances together stay within one of these budgets

Disturbances ==
  {"removals", "keys", "revocations", "expiries", "restarts", "failures", "misconfigs"}
Csrs == 1 .. Requests

VARIABLES
  related,    \* the relation to the operator exists
  key,        \* the secrets of the unit: the key, the request it sent last and the
  csr,        \* certificate, 0 for none
  cert,
  made,       \* requests so far
  keyOf,      \* keyOf[c]: the key request c was made with
  requested,  \* requests in the databag of the unit
  asked,      \* requests the operator has been told of and has not answered
  issued,     \* certificates in the databag of the operator
  revoked,    \* those of them that are marked as revoked
  age,        \* age[c]: "fresh", "expiring" (a week before) or "expired"
  notice,     \* notice[c]: when the secret that keeps the certificate expires, or "none"
  deferred,   \* certificate-available events put off
  toUnit,     \* relation-changed to come for the unit
  toOperator, \* and for the operator
  hooks,      \* relation-joined, relation-broken, config-changed or pebble-ready to come
  configOK,   \* the configuration of the charm is valid
  up,         \* the container runs, and pebble-ready has been handled
  file,       \* the key and the certificate in the container
  tls,        \* pgbouncer.ini enables TLS
  spent       \* disturbances so far

secrets == <<key, csr, cert>>
unitbag == <<made, keyOf, requested>>
operator == <<asked, issued, revoked, age>>
workload == <<configOK, up, file, tls>>
vars == <<related, secrets, unitbag, operator, notice, deferred, toUnit, toOperator,
          hooks, workload, spent>>

NoFile == [key |-> 0, cert |-> 0]

TypeOK ==
  /\ {key, csr, cert, made} \subseteq 0 .. Requests
  /\ cert <= csr /\ csr <= made  \* neither is of a request to come
  /\ keyOf \in [Csrs -> 0 .. Requests]
  /\ {requested, asked, issued, deferred} \subseteq SUBSET (1 .. made) /\ revoked \subseteq issued
  /\ age \in [Csrs -> {"fresh", "expiring", "expired"}]
  /\ notice \in [Csrs -> {"none", "expiring", "expired"}]
  /\ {related, toUnit, toOperator, configOK, up, tls} \subseteq BOOLEAN
  /\ hooks \subseteq {"joined", "broken", "config_changed", "pebble_ready"}
  /\ file \in [key : 0 .. Requests, cert : 0 .. Requests]
  /\ spent \in [Disturbances -> Nat]

Init ==
  /\ related = FALSE /\ toUnit = FALSE /\ toOperator = FALSE /\ hooks = {}
  /\ key = 0 /\ csr = 0 /\ cert = 0
  /\ made = 0 /\ keyOf = [c \in Csrs |-> 0] /\ requested = {}
  /\ asked = {} /\ issued = {} /\ revoked = {} /\ age = [c \in Csrs |-> "fresh"]
  /\ notice = [c \in Csrs |-> "none"] /\ deferred = {}
  /\ configOK = TRUE /\ up = TRUE /\ file = NoFile /\ tls = FALSE
  /\ spent = [d \in Disturbances |-> 0]

Spend(d) ==
  /\ spent' = [spent EXCEPT ![d] = @ + 1]
  /\ \E budget \in Budgets : \A x \in Disturbances : spent'[x] <= budget[x]

----------------------------------------------------------------------------
(* Requests of the unit *)

\* request_certificate_creation with the request that is generated for key k.
Adds(k, others) ==
  /\ made < Requests
  /\ made' = made + 1 /\ csr' = made' /\ key' = k
  /\ keyOf' = [keyOf EXCEPT ![made'] = k]
  /\ requested' = IF related THEN others \union {made'} ELSE others
  /\ toOperator' = related

\* _request_certificate: requests made before are not withdrawn.
RequestCertificate == Adds(made + 1, requested)

\* request_certificate_revocation
Without(c) == requested \ {c}

\* request_certificate_renewal
Renews(c) == Adds(key, Without(c))

\* _on_certificate_expiring: the request that is withdrawn is the last one.
Renew == Renews(csr)

NoRequest == UNCHANGED <<key, csr, unitbag, toOperator>>

Joined ==
  /\ "joined" \in hooks
  /\ hooks' = hooks \ {"joined"}
  /\ RequestCertificate
  /\ UNCHANGED <<related, cert, operator, notice, deferred, toUnit, workload, spent>>

\* The action set-tls-private-key.
SetPrivateKey ==
  /\ Spend("keys")
  /\ RequestCertificate
  /\ UNCHANGED <<related, cert, operator, notice, deferred, toUnit, hooks, workload>>

----------------------------------------------------------------------------
(* Certificates *)

\* get_tls_files, for certificate c.
TlsFiles(c) == [key |-> key, cert |-> c]

\* render_pgb_config enables TLS with all of get_tls_files, here for certificate c, in the
\* container or not; nothing without a valid configuration.
Rendered(c) == IF configOK THEN key # 0 /\ c # 0 ELSE tls

\* A container that has restarted can be reached, or not, before pebble-ready.
Renders(c) == tls' = Rendered(c) \/ (~up /\ tls' = tls)

\* push_tls_files_to_workload, likewise.
Pushes(c) ==
  \/ file' = TlsFiles(c) /\ tls' = Rendered(c)
  \/ ~up /\ UNCHANGED <<file, tls>>

\* Mutant: certificates for other requests than the last one are taken too.
KnownAny(c) == TRUE

\* "An unknown certificate available."
Known(c) == c = csr

\* _on_certificate_available
Takes(c) == cert' = c /\ Pushes(c)

\* add_secret or set_info: the next of the two times that is in the future.
NextNotice(c) == IF age[c] = "fresh" THEN "expiring" ELSE "expired"

Seen == requested \intersect issued

Noticed ==
  [c \in Csrs |-> IF c \notin Seen THEN notice[c] ELSE IF c \in revoked THEN "none" ELSE NextNotice(c)]

ChangedHook ==
  /\ toUnit /\ related
  /\ toUnit' = FALSE
  /\ notice' = Noticed
  /\ UNCHANGED <<related, operator, hooks, configOK, up>>

\* The certificate in use is revoked: it comes first, as it was issued first.
RevokedRenewed == cert \in Seen \intersect revoked

\* Mutant: a revoked certificate is passed over.
UnitChangedUnrevoked ==
  /\ ChangedHook
  /\ IF \E c \in Seen \ revoked : Known(c)
     THEN \E c \in Seen \ revoked : Known(c) /\ Takes(c) ELSE UNCHANGED <<cert, file, tls>>
  /\ NoRequest /\ UNCHANGED <<deferred, spent>>

UnitChanged ==
  /\ ChangedHook
  /\ IF RevokedRenewed THEN Renew /\ UNCHANGED <<cert, file, tls>>
     ELSE /\ NoRequest
          /\ IF \E c \in Seen \ revoked : Known(c)
             THEN \E c \in Seen \ revoked : Known(c) /\ Takes(c)
             ELSE UNCHANGED <<cert, file, tls>>
  /\ UNCHANGED <<deferred, spent>>

\* Mutant: the event is not deferred.
PushFailsDropped(c) ==
  /\ Known(c) /\ Spend("failures")
  /\ cert' = c /\ deferred' = deferred \ {c}
  /\ \/ file' \in {file, [file EXCEPT !.key = key]} /\ tls' = tls
     \/ file' = TlsFiles(c) /\ tls' \in {tls, Rendered(c)}
  /\ NoRequest

\* Pebble raises while the key, the certificate and pgbouncer.ini are pushed one after the
\* other: the secrets are set, the event is deferred.
PushFails(c) ==
  /\ Known(c) /\ Spend("failures")
  /\ cert' = c /\ deferred' = deferred \union {c}
  /\ \/ file' \in {file, [file EXCEPT !.key = key]} /\ tls' = tls
     \/ file' = TlsFiles(c) /\ tls' \in {tls, Rendered(c)}
  /\ NoRequest

AvailableFails(c) ==
  /\ ChangedHook
  /\ ~RevokedRenewed /\ c \in Seen \ revoked
  /\ PushFails(c)

DeferredFails(c) ==
  /\ c \in deferred
  /\ PushFails(c)
  /\ UNCHANGED <<related, operator, notice, toUnit, hooks, configOK, up>>

Deferred(c) ==
  /\ c \in deferred
  /\ deferred' = deferred \ {c}
  /\ IF Known(c) THEN Takes(c) ELSE UNCHANGED <<cert, file, tls>>
  /\ UNCHANGED <<related, key, csr, unitbag, operator, notice, toUnit, toOperator, hooks,
                 configOK, up, spent>>

\* The secret of a certificate that the relation does not have any more is removed.
SecretForgotten(c) ==
  /\ notice[c] = age[c] /\ c \notin issued
  /\ notice' = [notice EXCEPT ![c] = "none"]
  /\ UNCHANGED <<related, secrets, unitbag, operator, deferred, toUnit, toOperator, hooks,
                 workload, spent>>

\* certificate-expiring, or certificate-invalidated, which withdraws no request: it is asked
\* to withdraw the certificate.
SecretExpired(c) ==
  /\ notice[c] = age[c] /\ c \in issued
  /\ notice' = [notice EXCEPT ![c] = IF age[c] = "expired" THEN "none" ELSE "expired"]
  /\ IF c = cert THEN Renew ELSE NoRequest
  /\ UNCHANGED <<related, cert, operator, deferred, toUnit, hooks, workload, spent>>

\* Mutant: the certificate stays.
BrokenKeepsCertificate ==
  /\ "broken" \in hooks
  /\ hooks' = hooks \ {"broken"}
  /\ Renders(cert)
  /\ UNCHANGED <<related, secrets, unitbag, operator, notice, deferred, toUnit, toOperator,
                 configOK, up, file, spent>>

\* The key and the request stay; update_config never asks for a retry.
Broken ==
  /\ "broken" \in hooks
  /\ hooks' = hooks \ {"broken"}
  /\ cert' = 0 /\ Renders(0)
  /\ UNCHANGED <<related, key, csr, unitbag, operator, notice, deferred, toUnit, toOperator,
                 configOK, up, file, spent>>

ConfigChanged ==
  /\ "config_changed" \in hooks
  /\ hooks' = hooks \ {"config_changed"}
  /\ Renders(cert)
  /\ UNCHANGED <<related, secrets, unitbag, operator, notice, deferred, toUnit, toOperator,
                 configOK, up, file, spent>>

\* peers-changed, database-requested and others render too.
OtherHook ==
  /\ Renders(cert)
  /\ UNCHANGED <<related, secrets, unitbag, operator, notice, deferred, toUnit, toOperator,
                 hooks, configOK, up, file, spent>>

\* Mutant: the files are pushed with the next certificate only.
PebbleReadyLeavesFiles ==
  /\ "pebble_ready" \in hooks /\ configOK
  /\ hooks' = hooks \ {"pebble_ready"}
  /\ up' = TRUE
  /\ tls' = Rendered(cert)
  /\ UNCHANGED <<related, secrets, unitbag, operator, notice, deferred, toUnit, toOperator,
                 configOK, file, spent>>

\* "in case of pod restart"
Restored == IF cert # 0 THEN TlsFiles(cert) ELSE file

PebbleReady ==
  /\ "pebble_ready" \in hooks /\ configOK
  /\ hooks' = hooks \ {"pebble_ready"}
  /\ up' = TRUE
  /\ file' = Restored /\ tls' = Rendered(cert)
  /\ UNCHANGED <<related, secrets, unitbag, operator, notice, deferred, toUnit, toOperator,
                 configOK, spent>>

\* pgbouncer does not start without its configuration: the hook fails, and runs again.
PebbleReadyFails ==
  /\ "pebble_ready" \in hooks /\ ~configOK
  /\ file' = Restored
  /\ UNCHANGED <<related, secrets, unitbag, operator, notice, deferred, toUnit, toOperator,
                 hooks, configOK, up, tls, spent>>

----------------------------------------------------------------------------
(* The operator *)

\* _remove_certificate, with its mark if it was revoked.
Removes(certificates) ==
  /\ issued' = issued \ certificates /\ revoked' = revoked \ certificates
  /\ toUnit' = (toUnit \/ issued' # issued)

\* _add_certificate
Publishes(c) == issued' = issued \union {c} /\ toUnit' = TRUE

\* _revoke_certificates_for_which_no_csr_exists
RevokesUnrequested == Removes(issued \ requested)

\* certificate-creation-request for what has no certificate.
OperatorChanged ==
  /\ toOperator
  /\ toOperator' = FALSE
  /\ asked' = asked \union (requested \ issued)
  /\ RevokesUnrequested
  /\ UNCHANGED <<related, secrets, unitbag, age, notice, deferred, hooks, workload, spent>>

\* set_relation_certificate
Issue(c) ==
  /\ c \in asked
  /\ asked' = asked \ {c} /\ Publishes(c)
  /\ UNCHANGED <<related, secrets, unitbag, revoked, age, notice, deferred, toOperator, hooks,
                 workload, spent>>

\* revoke_all_certificates, when the root CA changes.
RevokeAll ==
  /\ issued # {} /\ Spend("revocations")
  /\ revoked' = issued
  /\ toUnit' = TRUE
  /\ UNCHANGED <<related, secrets, unitbag, asked, issued, age, notice, deferred, toOperator,
                 hooks, workload>>

----------------------------------------------------------------------------
(* Time, Juju and Kubernetes *)

Ages(c) ==
  /\ c \in issued /\ age[c] # "expired"
  /\ Spend("expiries")
  /\ age' = [age EXCEPT ![c] = IF @ = "fresh" THEN "expiring" ELSE "expired"]
  /\ UNCHANGED <<related, secrets, unitbag, asked, issued, revoked, notice, deferred, toUnit,
                 toOperator, hooks, workload>>

Relate ==
  /\ ~related /\ "broken" \notin hooks
  /\ related' = TRUE
  /\ hooks' = hooks \union {"joined"}
  /\ UNCHANGED <<secrets, unitbag, operator, notice, deferred, toUnit, toOperator, workload, spent>>

Remove ==
  /\ related /\ "joined" \notin hooks
  /\ Spend("removals")
  /\ related' = FALSE
  /\ hooks' = hooks \union {"broken"}
  /\ requested' = {} /\ asked' = {} /\ issued' = {} /\ revoked' = {}
  /\ toUnit' = FALSE /\ toOperator' = FALSE
  /\ UNCHANGED <<secrets, made, keyOf, age, notice, deferred, workload>>

ContainerRestart ==
  /\ up /\ Spend("restarts")
  /\ up' = FALSE /\ file' = NoFile /\ tls' = FALSE
  /\ hooks' = hooks \union {"pebble_ready"}
  /\ UNCHANGED <<related, secrets, unitbag, operator, notice, deferred, toUnit, toOperator,
                 configOK>>

\* config-changed does nothing with an invalid configuration.
Misconfigure ==
  /\ configOK /\ Spend("misconfigs")
  /\ configOK' = FALSE
  /\ UNCHANGED <<related, secrets, unitbag, operator, notice, deferred, toUnit, toOperator,
                 hooks, up, file, tls>>

Reconfigure ==
  /\ ~configOK
  /\ configOK' = TRUE
  /\ hooks' = hooks \union {"config_changed"}
  /\ UNCHANGED <<related, secrets, unitbag, operator, notice, deferred, toUnit, toOperator,
                 up, file, tls, spent>>

----------------------------------------------------------------------------
(* Specification *)

Handlers ==
  \/ Joined \/ UnitChanged \/ Broken \/ ConfigChanged \/ PebbleReady \/ OperatorChanged
  \/ Reconfigure
  \/ \E c \in Csrs : Deferred(c) \/ SecretForgotten(c) \/ SecretExpired(c) \/ Issue(c)

Environment ==
  \/ SetPrivateKey \/ OtherHook \/ PebbleReadyFails
  \/ RevokeAll \/ Relate \/ Remove \/ ContainerRestart \/ Misconfigure
  \/ \E c \in Csrs : AvailableFails(c) \/ DeferredFails(c) \/ Ages(c)

Next == Handlers \/ Environment

Spec == Init /\ [][Next]_vars

\* Events are delivered, the operator answers, and the configuration is repaired.
Fairness == WF_vars(Handlers)

FairSpec == Spec /\ Fairness

----------------------------------------------------------------------------
(* Properties *)

\* The certificate of the last request is still to come, or to be pushed again.
Repairable == csr \in deferred \/ (cert # csr /\ spent["restarts"] + spent["failures"] > 0)

\* The key that pgbouncer reads is the one of the certificate next to it, through renewals,
\* revocations, new relations and late answers to withdrawn requests (postgresql_tls.py:134-161).
\* A push that breaks off leaves the new key with the old certificate, until the event that was
\* deferred is handled; a container that restarts before the answer to a request for a new key
\* gets such a pair too (charm.py:349-350, 806-829), until the answer comes.
KeyMatches == up /\ file.cert # 0 /\ keyOf[file.cert] # file.key => Repairable

\* pgbouncer.ini enables TLS only with the files it names in the container: otherwise pgbouncer
\* would not start (charm.py:349-350, 806-835), whatever hook renders it (charm.py:1050).  A
\* push that breaks off leaves the secrets without the files, until it is tried again or
\* the next certificate comes.
TlsHasFiles ==
  up /\ tls => \/ file.key # 0 /\ file.cert # 0
               \/ cert \in deferred \/ (cert # csr /\ spent["failures"] > 0)

\* Once the relation has ended TLS is off, and no restart brings it back
\* (postgresql_tls.py:122-132): at once, or as soon as the configuration is valid and the
\* container up again.  A certificate-available that was deferred does bring it back.
TlsEnds ==
  ~related /\ "broken" \notin hooks /\ spent["failures"] = 0 =>
    /\ cert = 0
    /\ tls => ~configOK \/ "config_changed" \in hooks \/ ~up

\* While related the unit ends up with TLS, by a certificate for its last request, which is
\* neither revoked nor expired: an expiring, expired or revoked one is replaced, whatever
\* was lost with the container.  A certificate that is revoked before the unit took it is not
\* renewed: it is an unknown one (postgresql_tls.py:167-169).  A new key, and a revocation or
\* an expiry before its certificate, can go round for ever: the request that is withdrawn is
\* not the one of the certificate in use.
Renewable ==
  /\ related /\ (csr \in revoked => cert = csr)
  /\ spent["keys"] = 0 \/ (spent["revocations"] = 0 /\ spent["expiries"] < 2)

TlsServed ==
  Renewable =>
    /\ tls /\ file.cert = csr /\ csr \in issued \ revoked
    /\ age[csr] # "expired" \/ notice[csr] # "none"
=============================================================================
