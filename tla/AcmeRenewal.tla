----------------------------- MODULE AcmeRenewal -----------------------------
(***************************************************************************)
(* The life of the server's certificate: acme.rs (TLS-ALPN-01 issuance,    *)
(* the renewal task, the cache on disk), challenge.rs (the challenges the  *)
(* listener can answer), and what server.rs, tls_server.rs and the         *)
(* CertSource of h3_server.rs do to serve it, in a process that may crash  *)
(* and be started again at any step.                                       *)
(*                                                                         *)
(* A certificate and its key carry the number of the order they come from; *)
(* 0 is the self-signed bootstrap pair.  Every .await of issue() and every *)
(* write to the cache ends a step.  The model is of tls = acme, http3 on.  *)
(***************************************************************************)
EXTENDS Naturals, FiniteSets

CONSTANTS
  Domains,      \* what compute_acme_domains asks the order for
  FaultKinds,   \* which of AllFaults may happen
  MaxFaults,    \* bound: faults in a behaviour
  MaxDue        \* bound: certificates that come into their renewal window

\* An ACME request or validation that fails, a failed write to the cache, an
\* ECH key file that cannot be read, the end of the process.
AllFaults == {"acme", "disk", "ech", "crash"}

ASSUME AcmeRenewalAssumption ==
  /\ IsFiniteSet(Domains)
  /\ FaultKinds \subseteq AllFaults
  /\ MaxFaults \in Nat
  /\ MaxDue \in Nat

VARIABLES
  proc,     \* "down", "up", or "failed": run() returned an error
  cert,     \* cert.pem of the cache directory
  key,      \* key.pem of the cache directory
  orders,   \* number of the newest order
  due,      \* certificates inside the renewal window
  expired,  \* certificates past their notAfter
  authz,    \* the newest order's authorizations, at the ACME server
  store,    \* ChallengeStore: the order a domain's entry answers for, 0 if none
  tcp,      \* certificate of the TCP acceptor
  h3,       \* CertSource
  config,   \* the HTTP/3 listener's CachedConfig
  task,     \* the task that issues and renews
  faults    \* faults so far

disk == <<cert, key>>
world == <<orders, due, expired, authz>>
serving == <<tcp, h3, config>>
vars == <<proc, disk, world, store, serving, task, faults>>

\* A file of the cache; one that fs::write truncated and did not fill is torn.
File == [is : {"missing", "torn", "whole"}, pair : 0 .. orders]
NoFile == [is |-> "missing", pair |-> 0]
Torn == [is |-> "torn", pair |-> 0]
Whole(pair) == [is |-> "whole", pair |-> pair]

\* Where the task is: before the order, between and inside authorizations, in
\* the two polls, in each write of the cache, in the swaps, asleep, ended.
Stage == {"none", "order", "authz", "set_ready", "ready", "finalize", "cert",
          "cert_open", "key", "key_open", "install", "h3", "sleep", "dead"}

Ordering == {"authz", "set_ready", "ready"}

\* Every variable keeps its type; whatever is on disk, in the store or served
\* comes from an order that was made, and a domain is never both the one issue()
\* is at and one it has done.
TypeOK ==
  /\ proc \in {"down", "up", "failed"}
  /\ cert \in File /\ key \in File
  /\ orders \in Nat
  /\ due \subseteq 1 .. orders
  /\ expired \subseteq due
  /\ authz \in [Domains -> {"none", "pending", "ready", "valid", "invalid"}]
  /\ store \in [Domains -> 0 .. orders]
  /\ tcp \in 0 .. orders
  /\ h3 \in [next : Nat, generation : Nat, pair : 0 .. orders]
  /\ config \in [built : BOOLEAN, generation : Nat, pair : 0 .. orders]
  /\ task \in [stage : Stage, first : BOOLEAN, active : SUBSET Domains,
               domain : SUBSET Domains]
  /\ task.active \cap task.domain = {}
  /\ faults \in 0 .. MaxFaults

NoTask == [stage |-> "none", first |-> FALSE, active |-> {}, domain |-> {}]
NoConfig == [built |-> FALSE, generation |-> 0, pair |-> 0]
EmptyStore == [d \in Domains |-> 0]
Bootstrap == [next |-> 1, generation |-> 0, pair |-> 0]

Init ==
  /\ proc = "down"
  /\ orders \in {0, 1}
  /\ cert = IF orders = 0 THEN NoFile ELSE Whole(1)
  /\ key = cert
  /\ due = {} /\ expired = {}
  /\ authz = [d \in Domains |-> "none"]
  /\ store = EmptyStore
  /\ tcp = 0 /\ h3 = Bootstrap /\ config = NoConfig
  /\ task = NoTask
  /\ faults = 0

Fault(kind) ==
  /\ kind \in FaultKinds
  /\ faults < MaxFaults
  /\ faults' = faults + 1

\* A pair came into its last 30 days, or expired.
BecomeDue ==
  /\ Cardinality(due) < MaxDue
  /\ \E c \in {cert.pair, tcp} \ (due \cup {0}) : due' = due \cup {c}
  /\ UNCHANGED <<proc, disk, orders, expired, authz, store, serving, task, faults>>

Expire ==
  /\ \E c \in due \ expired : expired' = expired \cup {c}
  /\ UNCHANGED <<proc, disk, orders, due, authz, store, serving, task, faults>>

\* needs_renewal, with its "any parsing failure also triggers renewal"
NeedsRenewal(file) == file.is = "torn" \/ file.pair \in due

\* load_cached
Cached == cert # NoFile /\ key # NoFile /\ ~NeedsRenewal(cert)

-----------------------------------------------------------------------------
(* The process.                                                            *)

\* CertSource::swap
SwapH3(source, pair) ==
  [next |-> source.next + 1, generation |-> source.next, pair |-> pair]

\* run() with a cached pair: install_material checks that cert and key
\* match, and its error ends the process.
StartCached ==
  /\ proc # "up"
  /\ Cached
  /\ IF key = cert
       THEN /\ proc' = "up"
            /\ tcp' = cert.pair
            /\ h3' = SwapH3(Bootstrap, cert.pair)
            /\ task' = [NoTask EXCEPT !.stage = "sleep"]
       ELSE /\ proc' = "failed"
            /\ UNCHANGED <<tcp, h3, task>>
  /\ UNCHANGED <<disk, world, store, config, faults>>

\* run() without: the bootstrap pair is served while issue() runs in the
\* background.
StartFresh ==
  /\ proc # "up"
  /\ ~Cached
  /\ proc' = "up"
  /\ task' = [NoTask EXCEPT !.stage = "order", !.first = TRUE]
  /\ UNCHANGED <<disk, world, store, serving, faults>>

Crash ==
  /\ proc = "up"
  /\ Fault("crash")
  /\ proc' = "down"
  /\ store' = EmptyStore
  /\ tcp' = 0 /\ h3' = Bootstrap /\ config' = NoConfig
  /\ task' = NoTask
  /\ UNCHANGED <<disk, world>>

-----------------------------------------------------------------------------
(* issue()                                                                 *)

Goto(stage) == task' = [task EXCEPT !.stage = stage]

\* Mutant: an error ends the renewal task too.
GiveUpForGood == Goto("dead")

\* issue() returned an error: the renewal task waits for another day, the
\* task of the first issuance ends.
GiveUp ==
  task' = [NoTask EXCEPT !.stage = IF task.first THEN "dead" ELSE "sleep"]

\* The daily check of cert.pem.
DailyCheck ==
  /\ task.stage = "sleep"
  /\ NeedsRenewal(cert)
  /\ Goto("order")
  /\ UNCHANGED <<proc, disk, world, store, serving, faults>>

\* The account and the order; the ACME server may remember authorizations.
NewOrder ==
  /\ task.stage = "order"
  /\ orders' = orders + 1
  /\ \E reused \in SUBSET Domains :
       authz' = [d \in Domains |-> IF d \in reused THEN "valid" ELSE "pending"]
  /\ Goto("authz")
  /\ UNCHANGED <<proc, disk, due, expired, store, serving, faults>>

\* Mutant: an entry left behind by an earlier order is kept.
InstallChallengeOnce ==
  /\ task.stage = "authz"
  /\ \E d \in Domains :
       /\ authz[d] = "pending"
       /\ store' = [store EXCEPT ![d] = IF @ = 0 THEN orders ELSE @]
       /\ task' = [task EXCEPT !.stage = "set_ready", !.domain = {d}]
  /\ UNCHANGED <<proc, disk, world, serving, faults>>

\* Mutant: the domain counts as active before its challenge is set ready.
InstallChallengePushed ==
  /\ task.stage = "authz"
  /\ \E d \in Domains :
       /\ authz[d] = "pending"
       /\ store' = [store EXCEPT ![d] = orders]
       /\ task' = [task EXCEPT !.stage = "set_ready", !.domain = {d},
                               !.active = @ \cup {d}]
  /\ UNCHANGED <<proc, disk, world, serving, faults>>

\* The next pending authorization: its challenge context enters the store,
\* replacing what an earlier order may have left there.
InstallChallenge ==
  /\ task.stage = "authz"
  /\ \E d \in Domains :
       /\ authz[d] = "pending"
       /\ store' = [store EXCEPT ![d] = orders]
       /\ task' = [task EXCEPT !.stage = "set_ready", !.domain = {d}]
  /\ UNCHANGED <<proc, disk, world, serving, faults>>

SetReady ==
  /\ task.stage = "set_ready"
  /\ authz' = [d \in Domains |-> IF d \in task.domain THEN "ready" ELSE authz[d]]
  /\ task' = [task EXCEPT !.stage = "authz", !.domain = {},
                          !.active = @ \cup task.domain]
  /\ UNCHANGED <<proc, disk, orders, due, expired, store, serving, faults>>

AuthzDone ==
  /\ task.stage = "authz"
  /\ \A d \in Domains : authz[d] # "pending"
  /\ Goto("ready")
  /\ UNCHANGED <<proc, disk, world, store, serving, faults>>

\* Mutant: the entries stay.
OrderReadyNoCleanup ==
  /\ task.stage = "ready"
  /\ \A d \in Domains : authz[d] = "valid"
  /\ Goto("finalize")
  /\ UNCHANGED <<proc, disk, world, store, serving, faults>>

\* poll_until_ready saw Ready: the challenge entries are removed.
OrderReady ==
  /\ task.stage = "ready"
  /\ \A d \in Domains : authz[d] = "valid"
  /\ store' = [d \in Domains |-> IF d \in task.active THEN 0 ELSE store[d]]
  /\ Goto("finalize")
  /\ UNCHANGED <<proc, disk, world, serving, faults>>

\* poll_until_ready saw Invalid.
OrderInvalid ==
  /\ task.stage = "ready"
  /\ \E d \in Domains : authz[d] = "invalid"
  /\ GiveUp
  /\ UNCHANGED <<proc, disk, world, store, serving, faults>>

\* A request failed or a poll ran out of tries.
RequestFails ==
  /\ task.stage \in {"order", "authz", "set_ready", "ready", "finalize"}
  /\ Fault("acme")
  /\ GiveUp
  /\ UNCHANGED <<proc, disk, world, store, serving>>

\* Mutant: the pair is served before it is saved.
CertificateReadyUnsaved ==
  /\ task.stage = "finalize"
  /\ Goto("install")
  /\ UNCHANGED <<proc, disk, world, store, serving, faults>>

\* finalize_csr and poll_until_certificate succeeded.
CertificateReady ==
  /\ task.stage = "finalize"
  /\ Goto("cert")
  /\ UNCHANGED <<proc, disk, world, store, serving, faults>>

\* fs::write truncates, then writes; it can fail or be cut in between.
WriteCert ==
  /\ \/ task.stage = "cert" /\ cert' = Torn /\ Goto("cert_open")
     \/ task.stage = "cert_open" /\ cert' = Whole(orders) /\ Goto("key")
  /\ UNCHANGED <<proc, key, world, store, serving, faults>>

WriteKey ==
  /\ \/ task.stage = "key" /\ key' = Torn /\ Goto("key_open")
     \/ task.stage = "key_open" /\ key' = Whole(orders) /\ Goto("install")
  /\ UNCHANGED <<proc, cert, world, store, serving, faults>>

WriteFails ==
  /\ task.stage \in {"cert", "cert_open", "key", "key_open"}
  /\ Fault("disk")
  /\ GiveUp
  /\ UNCHANGED <<proc, disk, world, store, serving>>

-----------------------------------------------------------------------------
(* install_material after the first issuance, make_swap_cb's callback      *)
(* after a renewal.                                                        *)

SwapTcp ==
  /\ task.stage = "install"
  /\ tcp' = orders
  /\ Goto("h3")
  /\ UNCHANGED <<proc, disk, world, store, h3, config, faults>>

\* Mutants: the HTTP/3 listener is forgotten; the generation stands still.
SwapCertSourceForgotten ==
  /\ task.stage = "h3"
  /\ task' = [NoTask EXCEPT !.stage = "sleep"]
  /\ UNCHANGED <<proc, disk, world, store, serving, faults>>

SwapCertSourceSameGeneration ==
  /\ task.stage = "h3"
  /\ h3' = [h3 EXCEPT !.pair = orders]
  /\ task' = [NoTask EXCEPT !.stage = "sleep"]
  /\ UNCHANGED <<proc, disk, world, store, tcp, config, faults>>

SwapCertSource ==
  /\ task.stage = "h3"
  /\ h3' = SwapH3(h3, orders)
  /\ task' = [NoTask EXCEPT !.stage = "sleep"]
  /\ UNCHANGED <<proc, disk, world, store, tcp, config, faults>>

\* build_acceptor_from_pem_strs reads the ECH key file and fails.
InstallFails ==
  /\ task.stage = "install"
  /\ Fault("ech")
  /\ GiveUp
  /\ UNCHANGED <<proc, disk, world, store, serving>>

\* ensure_config, for a new QUIC connection.
EnsureConfig ==
  /\ proc = "up"
  /\ ~config.built \/ config.generation # h3.generation
  /\ config' = [built |-> TRUE, generation |-> h3.generation, pair |-> h3.pair]
  /\ UNCHANGED <<proc, disk, world, store, tcp, h3, task, faults>>

-----------------------------------------------------------------------------
(* The ACME server.                                                        *)

\* It connects for a domain whose challenge was set ready: the ALPN callback
\* answers with the entry the store has at that moment.
Validate ==
  /\ \E d \in Domains :
       /\ authz[d] = "ready"
       /\ authz' = [authz EXCEPT ![d] =
                      IF proc = "up" /\ store[d] = orders THEN "valid" ELSE "invalid"]
  /\ UNCHANGED <<proc, disk, orders, due, expired, store, serving, task, faults>>

ValidationFails ==
  /\ Fault("acme")
  /\ \E d \in Domains : authz[d] = "ready" /\ authz' = [authz EXCEPT ![d] = "invalid"]
  /\ UNCHANGED <<proc, disk, orders, due, expired, store, serving, task>>

-----------------------------------------------------------------------------
Issue ==
  \/ NewOrder \/ InstallChallenge \/ SetReady \/ AuthzDone
  \/ OrderReady \/ OrderInvalid \/ CertificateReady
  \/ WriteCert \/ WriteKey \/ SwapTcp \/ SwapCertSource

Next ==
  \/ StartCached \/ StartFresh \/ Crash
  \/ DailyCheck \/ Issue
  \/ RequestFails \/ WriteFails \/ InstallFails
  \/ EnsureConfig
  \/ Validate \/ ValidationFails
  \/ BecomeDue \/ Expire

Spec == Init /\ [][Next]_vars

\* The timer fires every day, tokio goes on with the task, the ACME server
\* answers and validates, and a supervisor starts the process.
FairSpec ==
  /\ Spec
  /\ WF_vars(StartCached \/ StartFresh)
  /\ WF_vars(DailyCheck)
  /\ WF_vars(Issue)
  /\ WF_vars(Validate)

-----------------------------------------------------------------------------
(* Safety.                                                                 *)

\* Whenever the ACME server may come to validate a domain of the order that
\* issue() is working on, the listener can answer for that very order:
\* whatever earlier orders left in the store, and although cleanup runs in
\* the same task.
ValidatorFindsChallenge == \A d \in Domains :
  task.stage \in Ordering /\ authz[d] = "ready" => store[d] = orders

\* Once a certificate was issued, none of its challenges can be answered.
NoChallengeAfterIssue == \A d \in Domains :
  task.stage \in {"finalize", "cert", "cert_open", "key", "key_open", "install", "h3"} =>
    store[d] # orders

\* The two listeners serve the same pair, but for the instant between the
\* two swaps, through first issuance, renewals, failures and restarts.
ListenersAgree == h3.pair = tcp \/ task.stage = "h3"

\* A generation names one pair: when ensure_config finds its generation
\* unchanged, what it cached is what CertSource holds.
GenerationNamesPair ==
  config.built /\ config.generation = h3.generation => config.pair = h3.pair

\* A pair is served only after it was saved: a restart never goes back to an
\* older certificate than the one clients have seen.
SavedBeforeServed == cert.is = "whole" => tcp <= cert.pair

\* README: "subsequent runs reuse the cached cert and renew transparently".
\* A cache that run() itself filled lets the next run start.
RestartServes == proc # "failed"

-----------------------------------------------------------------------------
(* Liveness.                                                               *)

\* A served certificate that comes into its renewal window is replaced, or at
\* least a newer one is saved, even when orders, writes and the process fail on
\* the way: the daily check tries again.  A cache that run() refuses ends it.
DueIsRenewed == \A c \in 1 .. MaxDue + 1 :
  tcp = c /\ c \in due ~>
    tcp # c \/ (cert.is = "whole" /\ cert.pair > c) \/ proc = "failed"

=============================================================================
