------------------------- MODULE AcmeRenewalProofs -------------------------
(***************************************************************************)
(* Proofs about AcmeRenewal, for any set of domains, any mix of faults and *)
(* any number of renewals, crashes and restarts.                           *)
(***************************************************************************)
EXTENDS AcmeRenewal, TLAPS

AfterIssue == {"finalize", "cert", "cert_open", "key", "key_open", "install", "h3"}

\* What issue() knows at each stage of an order about the challenges: the one
\* being set up and those set ready answer for this order, and no other entry
\* of the store does; the entries leave with the Ordering stages.
ChallengesOfOrder ==
  /\ task.stage \in Ordering => \A d \in Domains :
       /\ authz[d] = "ready" => store[d] = orders
       /\ store[d] = orders => d \in task.active \cup task.domain
  /\ task.stage = "set_ready" => \A d \in task.domain : store[d] = orders
  /\ task.stage \in AfterIssue => \A d \in Domains : store[d] # orders

\* The task's own books: it runs in a process that is up, a domain is being
\* set up only between InstallChallenge and SetReady, and the domains it has
\* set ready are no longer pending.
TaskBooks ==
  /\ proc # "up" => task.stage = "none"
  /\ task.stage # "set_ready" => task.domain = {}
  /\ task.stage \in {"sleep", "order"} => task.active = {}
  /\ task.stage \in Ordering =>
       orders > 0 /\ \A d \in task.active : authz[d] # "pending"

\* What is saved and what is served at each stage of an installation.
SavedAndServed ==
  /\ cert.is = "whole" => tcp <= cert.pair
  /\ task.stage \in {"key", "key_open", "install", "h3"} => cert = Whole(orders)
  /\ task.stage = "h3" => tcp = orders
  /\ h3.pair = tcp \/ task.stage = "h3"

\* The generations of CertSource only grow, and the one it has, or the one the
\* HTTP/3 listener cached, was handed out before.
Generations ==
  /\ proc # "up" => ~config.built
  /\ h3.generation < h3.next
  /\ config.built => config.generation < h3.next
  /\ config.built /\ config.generation = h3.generation => config.pair = h3.pair

Inv == TypeOK /\ TaskBooks /\ ChallengesOfOrder /\ SavedAndServed /\ Generations

\* Every part of the invariant holds before the first start.
LEMMA InvInit == Init => Inv
<1> SUFFICES ASSUME Init PROVE Inv
  OBVIOUS
<1> USE AcmeRenewalAssumption DEF Init
<1>1. /\ cert \in File /\ key \in File
      /\ cert.is = "whole" => tcp <= cert.pair
  BY DEF File, NoFile, Whole
<1>2. /\ task \in [stage : Stage, first : BOOLEAN, active : SUBSET Domains,
                   domain : SUBSET Domains]
      /\ task.active \cap task.domain = {}
      /\ task.stage = "none"
  BY DEF NoTask, Stage
<1>3. /\ h3 \in [next : Nat, generation : Nat, pair : 0 .. orders]
      /\ h3.pair = tcp
      /\ config \in [built : BOOLEAN, generation : Nat, pair : 0 .. orders]
  BY DEF Bootstrap, NoConfig
<1>4. store \in [Domains -> 0 .. orders]
  BY DEF EmptyStore
<1>5. TypeOK
  BY <1>1, <1>2, <1>3, <1>4 DEF TypeOK
<1>6. ChallengesOfOrder
  BY <1>2 DEF ChallengesOfOrder, Ordering, AfterIssue
<1>7. SavedAndServed
  BY <1>1, <1>2, <1>3 DEF SavedAndServed
<1>8. TaskBooks
  BY <1>2 DEF TaskBooks, Ordering, NoTask
<1>9. Generations
  BY DEF Generations, Bootstrap, NoConfig
<1> QED BY <1>5, <1>6, <1>7, <1>8, <1>9 DEF Inv

Task == [stage : Stage, first : BOOLEAN, active : SUBSET Domains, domain : SUBSET Domains]

\* A task that starts afresh is well formed.
LEMMA FreshTask ==
  ASSUME NEW stage \in Stage
  PROVE  LET fresh == [NoTask EXCEPT !.stage = stage] IN
         fresh \in Task /\ fresh.active = {} /\ fresh.domain = {}
  BY DEF NoTask, Task

\* A task whose issue() failed has forgotten its domains.
LEMMA GivenUp ==
  GiveUp => task' \in Task /\ task'.active = {} /\ task'.domain = {}
<1> DEFINE stage == IF task.first THEN "dead" ELSE "sleep"
<1>1. stage \in Stage
  BY DEF Stage
<1>2. GiveUp => task' = [NoTask EXCEPT !.stage = stage]
  BY DEF GiveUp
<1> HIDE DEF stage
<1> QED BY <1>1, <1>2, FreshTask

\* Every action keeps the types, and SetReady never counts a domain twice.
LEMMA TypeStep == Inv /\ [Next]_vars => TypeOK'
<1> SUFFICES ASSUME Inv, [Next]_vars PROVE TypeOK'
  OBVIOUS
<1> USE AcmeRenewalAssumption DEF Inv, TypeOK, TaskBooks, File, Stage, Ordering, disk, world, serving
<1>1. CASE StartCached
  <2>1. task' \in Task /\ task'.active \cap task'.domain = {}
    <3>1. task' = task \/ task' = [NoTask EXCEPT !.stage = "sleep"]
      BY <1>1 DEF StartCached
    <3>2. CASE task' = task
      BY <3>2 DEF Task
    <3>3. CASE task' = [NoTask EXCEPT !.stage = "sleep"]
      BY <3>3, FreshTask
    <3> QED BY <3>1, <3>2, <3>3
  <2>2. h3' \in [next : Nat, generation : Nat, pair : 0 .. orders]
    BY <1>1 DEF StartCached, SwapH3, Bootstrap
  <2> QED BY <1>1, <2>1, <2>2 DEF StartCached, Task
<1>2. CASE StartFresh
  BY <1>2 DEF StartFresh, NoTask
<1>3. CASE Crash
  BY <1>3 DEF Crash, NoTask, Fault, Bootstrap, EmptyStore, NoConfig
<1>4. CASE DailyCheck
  BY <1>4 DEF DailyCheck, Goto
<1>5. CASE NewOrder
  BY <1>5 DEF NewOrder, Goto
<1>6. CASE InstallChallenge
  <2>1. PICK d \in Domains :
          /\ authz[d] = "pending"
          /\ store' = [store EXCEPT ![d] = orders]
          /\ task' = [task EXCEPT !.stage = "set_ready", !.domain = {d}]
    BY <1>6 DEF InstallChallenge
  <2>2. d \notin task.active
    BY <1>6, <2>1 DEF InstallChallenge
  <2>3. task' \in Task /\ task'.active \cap task'.domain = {}
    <3>1. task' \in Task
      BY <2>1 DEF Task
    <3>2. task'.active = task.active /\ task'.domain = {d}
      BY <2>1
    <3> QED BY <3>1, <3>2, <2>2
  <2>4. store' \in [Domains -> 0 .. orders]
    BY <2>1
  <2> QED BY <1>6, <2>3, <2>4 DEF InstallChallenge, Task
<1>7. CASE SetReady
  BY <1>7 DEF SetReady
<1>8. CASE AuthzDone
  BY <1>8 DEF AuthzDone, Goto
<1>9. CASE OrderReady
  BY <1>9 DEF OrderReady, Goto
<1>10. CASE OrderInvalid
  BY <1>10 DEF OrderInvalid, GiveUp, NoTask
<1>11. CASE CertificateReady
  BY <1>11 DEF CertificateReady, Goto
<1>12. CASE WriteCert
  BY <1>12 DEF WriteCert, Goto, Whole, Torn
<1>13. CASE WriteKey
  BY <1>13 DEF WriteKey, Goto, Whole, Torn
<1>14. CASE SwapTcp
  BY <1>14 DEF SwapTcp, Goto, Whole
<1>15. CASE SwapCertSource
  <2>1. task' \in Task /\ task'.active \cap task'.domain = {}
    <3>1. task' = [NoTask EXCEPT !.stage = "sleep"]
      BY <1>15 DEF SwapCertSource
    <3> QED BY <3>1, FreshTask
  <2>2. h3' \in [next : Nat, generation : Nat, pair : 0 .. orders]
    BY <1>15 DEF SwapCertSource, SwapH3
  <2> QED BY <1>15, <2>1, <2>2 DEF SwapCertSource, Task
<1>16. CASE RequestFails
  BY <1>16, GivenUp DEF RequestFails, Fault, Task
<1>17. CASE WriteFails
  BY <1>17, GivenUp DEF WriteFails, Fault, Task
<1>18. CASE InstallFails
  BY <1>18, GivenUp DEF InstallFails, Fault, Task
<1>19. CASE EnsureConfig
  BY <1>19 DEF EnsureConfig
<1>20. CASE Validate
  BY <1>20 DEF Validate
<1>21. CASE ValidationFails
  BY <1>21 DEF ValidationFails, Fault
<1>22. CASE BecomeDue
  BY <1>22 DEF BecomeDue
<1>23. CASE Expire
  BY <1>23 DEF Expire
<1>24. CASE UNCHANGED vars
  BY <1>24 DEF vars
<1> QED BY <1>1, <1>2, <1>3, <1>4, <1>5, <1>6, <1>7, <1>8, <1>9, <1>10, <1>11, <1>12, <1>13, <1>14, <1>15, <1>16, <1>17, <1>18, <1>19, <1>20, <1>21, <1>22, <1>23, <1>24 DEF Next, Issue

\* Every action keeps the task's books.
LEMMA BooksStep == Inv /\ [Next]_vars => TaskBooks'
<1> SUFFICES ASSUME Inv, [Next]_vars PROVE TaskBooks'
  OBVIOUS
<1> USE AcmeRenewalAssumption DEF Inv, TypeOK, TaskBooks, Ordering, disk, world, serving
<1>1. CASE StartCached
  BY <1>1 DEF StartCached, NoTask, Cached, NeedsRenewal, SwapH3, Bootstrap
<1>2. CASE StartFresh
  BY <1>2 DEF StartFresh, NoTask
<1>3. CASE Crash
  BY <1>3 DEF Crash, NoTask, Fault, Bootstrap, EmptyStore, NoConfig
<1>4. CASE DailyCheck
  BY <1>4 DEF DailyCheck, Goto
<1>5. CASE NewOrder
  BY <1>5 DEF NewOrder, Goto
<1>6. CASE InstallChallenge
  BY <1>6 DEF InstallChallenge
<1>7. CASE SetReady
  BY <1>7 DEF SetReady
<1>8. CASE AuthzDone
  BY <1>8 DEF AuthzDone, Goto
<1>9. CASE OrderReady
  BY <1>9 DEF OrderReady, Goto
<1>10. CASE OrderInvalid
  BY <1>10 DEF OrderInvalid, GiveUp, NoTask
<1>11. CASE CertificateReady
  BY <1>11 DEF CertificateReady, Goto
<1>12. CASE WriteCert
  BY <1>12 DEF WriteCert, Goto, Whole, Torn
<1>13. CASE WriteKey
  BY <1>13 DEF WriteKey, Goto, Whole, Torn
<1>14. CASE SwapTcp
  BY <1>14 DEF SwapTcp, Goto, Whole
<1>15. CASE SwapCertSource
  BY <1>15 DEF SwapCertSource, NoTask, SwapH3
<1>16. CASE RequestFails
  BY <1>16 DEF RequestFails, GiveUp, NoTask, Fault
<1>17. CASE WriteFails
  BY <1>17 DEF WriteFails, GiveUp, NoTask, Fault
<1>18. CASE InstallFails
  BY <1>18 DEF InstallFails, GiveUp, NoTask, Fault
<1>19. CASE EnsureConfig
  BY <1>19 DEF EnsureConfig
<1>20. CASE Validate
  BY <1>20 DEF Validate
<1>21. CASE ValidationFails
  BY <1>21 DEF ValidationFails, Fault
<1>22. CASE BecomeDue
  BY <1>22 DEF BecomeDue
<1>23. CASE Expire
  BY <1>23 DEF Expire
<1>24. CASE UNCHANGED vars
  BY <1>24 DEF vars
<1> QED BY <1>1, <1>2, <1>3, <1>4, <1>5, <1>6, <1>7, <1>8, <1>9, <1>10, <1>11, <1>12, <1>13, <1>14, <1>15, <1>16, <1>17, <1>18, <1>19, <1>20, <1>21, <1>22, <1>23, <1>24 DEF Next, Issue

\* Every action keeps the challenges of the order being worked on, and
\* OrderReady removes them all.
LEMMA ChallengeStep == Inv /\ [Next]_vars => ChallengesOfOrder'
<1> SUFFICES ASSUME Inv, [Next]_vars PROVE ChallengesOfOrder'
  OBVIOUS
<1> USE AcmeRenewalAssumption DEF Inv, TypeOK, TaskBooks, ChallengesOfOrder, Ordering, AfterIssue, disk, world, serving
<1>1. CASE StartCached
  BY <1>1 DEF StartCached, NoTask, Cached, NeedsRenewal, SwapH3, Bootstrap
<1>2. CASE StartFresh
  BY <1>2 DEF StartFresh, NoTask
<1>3. CASE Crash
  BY <1>3 DEF Crash, NoTask, Fault, Bootstrap, EmptyStore, NoConfig
<1>4. CASE DailyCheck
  BY <1>4 DEF DailyCheck, Goto
<1>5. CASE NewOrder
  BY <1>5 DEF NewOrder, Goto
<1>6. CASE InstallChallenge
  BY <1>6 DEF InstallChallenge
<1>7. CASE SetReady
  BY <1>7 DEF SetReady
<1>8. CASE AuthzDone
  BY <1>8 DEF AuthzDone, Goto
<1>9. CASE OrderReady
  BY <1>9 DEF OrderReady, Goto
<1>10. CASE OrderInvalid
  BY <1>10 DEF OrderInvalid, GiveUp, NoTask
<1>11. CASE CertificateReady
  BY <1>11 DEF CertificateReady, Goto
<1>12. CASE WriteCert
  BY <1>12 DEF WriteCert, Goto, Whole, Torn
<1>13. CASE WriteKey
  BY <1>13 DEF WriteKey, Goto, Whole, Torn
<1>14. CASE SwapTcp
  BY <1>14 DEF SwapTcp, Goto, Whole
<1>15. CASE SwapCertSource
  BY <1>15 DEF SwapCertSource, NoTask, SwapH3
<1>16. CASE RequestFails
  BY <1>16 DEF RequestFails, GiveUp, NoTask, Fault
<1>17. CASE WriteFails
  BY <1>17 DEF WriteFails, GiveUp, NoTask, Fault
<1>18. CASE InstallFails
  BY <1>18 DEF InstallFails, GiveUp, NoTask, Fault
<1>19. CASE EnsureConfig
  BY <1>19 DEF EnsureConfig
<1>20. CASE Validate
  BY <1>20 DEF Validate
<1>21. CASE ValidationFails
  BY <1>21 DEF ValidationFails, Fault
<1>22. CASE BecomeDue
  BY <1>22 DEF BecomeDue
<1>23. CASE Expire
  BY <1>23 DEF Expire
<1>24. CASE UNCHANGED vars
  BY <1>24 DEF vars
<1> QED BY <1>1, <1>2, <1>3, <1>4, <1>5, <1>6, <1>7, <1>8, <1>9, <1>10, <1>11, <1>12, <1>13, <1>14, <1>15, <1>16, <1>17, <1>18, <1>19, <1>20, <1>21, <1>22, <1>23, <1>24 DEF Next, Issue

\* Every write of the cache and every swap keeps what is served saved.
LEMMA SavedStep == Inv /\ [Next]_vars => SavedAndServed'
<1> SUFFICES ASSUME Inv, [Next]_vars PROVE SavedAndServed'
  OBVIOUS
<1> USE AcmeRenewalAssumption DEF Inv, TypeOK, TaskBooks, SavedAndServed, File, disk, world, serving
<1>1. CASE StartCached
  BY <1>1 DEF StartCached, NoTask, Cached, NeedsRenewal, SwapH3, Bootstrap
<1>2. CASE StartFresh
  BY <1>2 DEF StartFresh, NoTask
<1>3. CASE Crash
  BY <1>3 DEF Crash, NoTask, Fault, Bootstrap, EmptyStore, NoConfig
<1>4. CASE DailyCheck
  BY <1>4 DEF DailyCheck, Goto
<1>5. CASE NewOrder
  BY <1>5 DEF NewOrder, Goto
<1>6. CASE InstallChallenge
  BY <1>6 DEF InstallChallenge
<1>7. CASE SetReady
  BY <1>7 DEF SetReady
<1>8. CASE AuthzDone
  BY <1>8 DEF AuthzDone, Goto
<1>9. CASE OrderReady
  BY <1>9 DEF OrderReady, Goto
<1>10. CASE OrderInvalid
  BY <1>10 DEF OrderInvalid, GiveUp, NoTask
<1>11. CASE CertificateReady
  BY <1>11 DEF CertificateReady, Goto
<1>12. CASE WriteCert
  BY <1>12 DEF WriteCert, Goto, Whole, Torn
<1>13. CASE WriteKey
  BY <1>13 DEF WriteKey, Goto, Whole, Torn
<1>14. CASE SwapTcp
  BY <1>14 DEF SwapTcp, Goto, Whole
<1>15. CASE SwapCertSource
  BY <1>15 DEF SwapCertSource, NoTask, SwapH3
<1>16. CASE RequestFails
  BY <1>16 DEF RequestFails, GiveUp, NoTask, Fault
<1>17. CASE WriteFails
  BY <1>17 DEF WriteFails, GiveUp, NoTask, Fault
<1>18. CASE InstallFails
  BY <1>18 DEF InstallFails, GiveUp, NoTask, Fault
<1>19. CASE EnsureConfig
  BY <1>19 DEF EnsureConfig
<1>20. CASE Validate
  BY <1>20 DEF Validate
<1>21. CASE ValidationFails
  BY <1>21 DEF ValidationFails, Fault
<1>22. CASE BecomeDue
  BY <1>22 DEF BecomeDue
<1>23. CASE Expire
  BY <1>23 DEF Expire
<1>24. CASE UNCHANGED vars
  BY <1>24 DEF vars
<1> QED BY <1>1, <1>2, <1>3, <1>4, <1>5, <1>6, <1>7, <1>8, <1>9, <1>10, <1>11, <1>12, <1>13, <1>14, <1>15, <1>16, <1>17, <1>18, <1>19, <1>20, <1>21, <1>22, <1>23, <1>24 DEF Next, Issue

\* Every swap gets a generation of its own.
LEMMA GenerationStep == Inv /\ [Next]_vars => Generations'
<1> SUFFICES ASSUME Inv, [Next]_vars PROVE Generations'
  OBVIOUS
<1> USE AcmeRenewalAssumption DEF Inv, TypeOK, Generations, disk, world, serving
<1>1. CASE StartCached
  BY <1>1 DEF StartCached, NoTask, Cached, NeedsRenewal, SwapH3, Bootstrap
<1>2. CASE StartFresh
  BY <1>2 DEF StartFresh, NoTask
<1>3. CASE Crash
  BY <1>3 DEF Crash, NoTask, Fault, Bootstrap, EmptyStore, NoConfig
<1>4. CASE DailyCheck
  BY <1>4 DEF DailyCheck, Goto
<1>5. CASE NewOrder
  BY <1>5 DEF NewOrder, Goto
<1>6. CASE InstallChallenge
  BY <1>6 DEF InstallChallenge
<1>7. CASE SetReady
  BY <1>7 DEF SetReady
<1>8. CASE AuthzDone
  BY <1>8 DEF AuthzDone, Goto
<1>9. CASE OrderReady
  BY <1>9 DEF OrderReady, Goto
<1>10. CASE OrderInvalid
  BY <1>10 DEF OrderInvalid, GiveUp, NoTask
<1>11. CASE CertificateReady
  BY <1>11 DEF CertificateReady, Goto
<1>12. CASE WriteCert
  BY <1>12 DEF WriteCert, Goto, Whole, Torn
<1>13. CASE WriteKey
  BY <1>13 DEF WriteKey, Goto, Whole, Torn
<1>14. CASE SwapTcp
  BY <1>14 DEF SwapTcp, Goto, Whole
<1>15. CASE SwapCertSource
  BY <1>15 DEF SwapCertSource, NoTask, SwapH3
<1>16. CASE RequestFails
  BY <1>16 DEF RequestFails, GiveUp, NoTask, Fault
<1>17. CASE WriteFails
  BY <1>17 DEF WriteFails, GiveUp, NoTask, Fault
<1>18. CASE InstallFails
  BY <1>18 DEF InstallFails, GiveUp, NoTask, Fault
<1>19. CASE EnsureConfig
  BY <1>19 DEF EnsureConfig
<1>20. CASE Validate
  BY <1>20 DEF Validate
<1>21. CASE ValidationFails
  BY <1>21 DEF ValidationFails, Fault
<1>22. CASE BecomeDue
  BY <1>22 DEF BecomeDue
<1>23. CASE Expire
  BY <1>23 DEF Expire
<1>24. CASE UNCHANGED vars
  BY <1>24 DEF vars
<1> QED BY <1>1, <1>2, <1>3, <1>4, <1>5, <1>6, <1>7, <1>8, <1>9, <1>10, <1>11, <1>12, <1>13, <1>14, <1>15, <1>16, <1>17, <1>18, <1>19, <1>20, <1>21, <1>22, <1>23, <1>24 DEF Next, Issue

-----------------------------------------------------------------------------
\* The invariant holds in every reachable state.
LEMMA Invariance == Spec => []Inv
<1>1. Inv /\ [Next]_vars => Inv'
  BY TypeStep, BooksStep, ChallengeStep, SavedStep, GenerationStep DEF Inv
<1> QED BY InvInit, <1>1, PTL DEF Spec

\* Every variable keeps its type; with it, the cache, the store and both
\* listeners never name a pair that was not ordered.
THEOREM TypeCorrect == Spec => []TypeOK
<1>1. Inv => TypeOK
  BY DEF Inv
<1> QED BY Invariance, <1>1, PTL

\* issue() and handle_request: whenever the ACME server may come to validate
\* a domain, the listener answers for the order being worked on, over any
\* number of failed and repeated orders.
THEOREM ChallengeCorrect == Spec => []ValidatorFindsChallenge
<1>1. Inv => ValidatorFindsChallenge
  BY DEF Inv, ChallengesOfOrder, ValidatorFindsChallenge
<1> QED BY Invariance, <1>1, PTL

\* issue()'s cleanup: from finalize on, no challenge of the order is left.
THEOREM CleanupCorrect == Spec => []NoChallengeAfterIssue
<1>1. Inv => NoChallengeAfterIssue
  BY DEF Inv, ChallengesOfOrder, AfterIssue, NoChallengeAfterIssue
<1> QED BY Invariance, <1>1, PTL

\* install_material and make_swap_cb: both listeners serve the same pair but
\* between the two swaps.
THEOREM ListenersCorrect == Spec => []ListenersAgree
<1>1. Inv => ListenersAgree
  BY DEF Inv, SavedAndServed, ListenersAgree
<1> QED BY Invariance, <1>1, PTL

\* issue() writes the cache before the swap: what is served was saved, across
\* crashes between any two writes.
THEOREM SavedCorrect == Spec => []SavedBeforeServed
<1>1. Inv => SavedBeforeServed
  BY DEF Inv, SavedAndServed, SavedBeforeServed
<1> QED BY Invariance, <1>1, PTL

\* CertSource::swap and ensure_config: comparing generations is as good as
\* comparing the pairs, after any number of swaps, crashes and restarts.
THEOREM GenerationCorrect == Spec => []GenerationNamesPair
<1>1. Inv => GenerationNamesPair
  BY DEF Inv, Generations, GenerationNamesPair
<1> QED BY Invariance, <1>1, PTL

=============================================================================
