------------------------ MODULE RequestContextProofs ------------------------
(***************************************************************************)
(* Proofs about RequestContext, for any number of threads, requests and    *)
(* tasks, names and tenants.                                               *)
(***************************************************************************)
EXTENDS RequestContext, TLAPS

LEMMA TypeStep == TypeOK /\ [Next]_vars => TypeOK'
<1> SUFFICES ASSUME TypeOK, [Next]_vars PROVE TypeOK'
  OBVIOUS
<1> USE DEF TypeOK, own, left, locals, Take, ActorOf, Actor, NoEntry
<1>1. ASSUME NEW th \in Thread, NEW j \in Job, Enter(th, j) PROVE TypeOK'
  BY <1>1 DEF Enter
<1>2. ASSUME NEW th \in Thread, NEW j \in Job, StartTask(th, j) PROVE TypeOK'
  BY <1>2 DEF StartTask
<1>3. ASSUME NEW th \in Thread, NEW next \in {"over", "stream"}, Leave(th, next) PROVE TypeOK'
  BY <1>3 DEF Leave, LeaveView
<1>4. ASSUME NEW th \in Thread, EndJob(th) PROVE TypeOK'
  BY <1>4 DEF EndJob
<1>5. ASSUME NEW th \in Thread, NEW a \in Name, SetCurrentActor(th, a) PROVE TypeOK'
  BY <1>5 DEF SetCurrentActor, Works, LeftBy
<1>6. ASSUME NEW th \in Thread, NEW n \in Tenant, SetCurrentTenant(th, n) PROVE TypeOK'
  BY <1>6 DEF SetCurrentTenant, Works, LeftBy
<1>7. ASSUME NEW th \in Thread, ClearCurrentActor(th) PROVE TypeOK'
  BY <1>7 DEF ClearCurrentActor, Works
<1>8. ASSUME NEW th \in Thread, ClearCurrentTenant(th) PROVE TypeOK'
  BY <1>8 DEF ClearCurrentTenant, Works
<1>9. ASSUME NEW th \in Thread, NEW f \in Name \cup {None}, NEW a \in Name \cup {None},
             AppendEntry(th, f, a)
      PROVE TypeOK'
  <2>1. ResolveActor(th, f, a) \in Actor
    BY DEF ResolveActor
  <2>2. ResolveTenant(th) \in Tenant \cup {DefaultTenant}
    BY DEF ResolveTenant
  <2> QED
    BY <1>9, <2>1, <2>2 DEF AppendEntry
<1>10. CASE UNCHANGED vars
  BY <1>10 DEF vars
<1> QED BY <1>1, <1>2, <1>3, <1>4, <1>5, <1>6, <1>7, <1>8, <1>9, <1>10 DEF Next

\* The thread-locals hold names and tenants of jobs or nothing, and every entry has an actor.
THEOREM TypeCorrect == Spec => []TypeOK
<1>1. Init => TypeOK
  BY DEF Init, TypeOK, NoEntry
<1> QED BY <1>1, TypeStep, PTL DEF Spec

LEMMA ContextStep == TypeOK /\ ContextInv /\ [Next]_vars => ContextInv'
<1> SUFFICES ASSUME TypeOK, ContextInv, [Next]_vars PROVE ContextInv'
  OBVIOUS
<1> USE NameAssumption DEF TypeOK, ContextInv, ContextOf, own, left, locals, Take, ActorOf
<1>1. ASSUME NEW th \in Thread, NEW j \in Job, Enter(th, j) PROVE ContextInv'
  BY <1>1 DEF Enter
<1>2. ASSUME NEW th \in Thread, NEW j \in Job, StartTask(th, j) PROVE ContextInv'
  BY <1>2 DEF StartTask
<1>3. ASSUME NEW th \in Thread, NEW next \in {"over", "stream"}, Leave(th, next)
      PROVE ContextInv'
  BY <1>3 DEF Leave, LeaveView
<1>4. ASSUME NEW th \in Thread, EndJob(th) PROVE ContextInv'
  BY <1>4 DEF EndJob
<1>5. ASSUME NEW th \in Thread, NEW a \in Name, SetCurrentActor(th, a) PROVE ContextInv'
  BY <1>5 DEF SetCurrentActor, Works, LeftBy
<1>6. ASSUME NEW th \in Thread, NEW n \in Tenant, SetCurrentTenant(th, n) PROVE ContextInv'
  BY <1>6 DEF SetCurrentTenant, Works, LeftBy
<1>7. ASSUME NEW th \in Thread, ClearCurrentActor(th) PROVE ContextInv'
  BY <1>7 DEF ClearCurrentActor, Works
<1>8. ASSUME NEW th \in Thread, ClearCurrentTenant(th) PROVE ContextInv'
  BY <1>8 DEF ClearCurrentTenant, Works
<1>9. ASSUME NEW th \in Thread, NEW f, NEW a, AppendEntry(th, f, a) PROVE ContextInv'
  BY <1>9 DEF AppendEntry
<1>10. CASE UNCHANGED vars
  BY <1>10 DEF vars
<1> QED BY <1>1, <1>2, <1>3, <1>4, <1>5, <1>6, <1>7, <1>8, <1>9, <1>10 DEF Next

EntryInv == NewestInv /\ NothingLeaks /\ RequestsAreNamed

\* Only AppendEntry leaves an entry in newest.
LEMMA EntryStep == TypeOK /\ ContextInv /\ EntryInv /\ [Next]_vars => EntryInv'
<1> SUFFICES ASSUME TypeOK, ContextInv, EntryInv, [Next]_vars PROVE EntryInv'
  OBVIOUS
<1>1. ASSUME newest' = NoEntry PROVE EntryInv'
  BY <1>1 DEF EntryInv, NewestInv, NothingLeaks, RequestsAreNamed, NoEntry
<1>2. ASSUME NEW th \in Thread, NEW f \in Name \cup {None}, NEW a \in Name \cup {None},
             AppendEntry(th, f, a)
      PROVE EntryInv'
  <2> DEFINE j == serving[th]
  <2>1. j \in Job /\ ContextOf(th, j)
    BY <1>2 DEF AppendEntry, TypeOK, ContextInv
  <2>2. /\ newest'.job = j /\ newest'.stage = stage[j] /\ newest'.field = f
        /\ newest'.attribute = a /\ newest'.actor = ResolveActor(th, f, a)
        /\ newest'.tenant = ResolveTenant(th)
        /\ newest'.leftActor = leftActor[th] /\ newest'.leftTenant = leftTenant[th]
    BY <1>2 DEF AppendEntry
  <2>3. UNCHANGED <<stage, ownActors, ownTenants, header>>
    BY <1>2 DEF AppendEntry, own
  <2>4. NewestInv'
    BY <2>1, <2>2, <2>3 DEF ContextOf, NewestInv
  <2>5. ResolveActor(th, f, a) \in {f, a, System, leftActor[th]} \cup ownActors[j]
    BY <2>1 DEF ContextOf, ResolveActor
  <2>6. stage[j] = "view" /\ None \notin ownActors[j]
          => ResolveActor(th, f, a) \in ownActors[j] \cup ({f} \ {None})
    BY <2>1 DEF ContextOf, ResolveActor
  <2>7. ResolveTenant(th) \in {DefaultTenant, leftTenant[th]} \cup ownTenants[j]
    BY <2>1 DEF ContextOf, ResolveTenant
  <2>8. stage[j] = "view" /\ header[j] # None /\ None \notin ownTenants[j]
          => ResolveTenant(th) \in ownTenants[j]
    BY <2>1 DEF ContextOf, ResolveTenant
  <2>9. NothingLeaks'
    BY <2>2, <2>3, <2>5, <2>7 DEF NothingLeaks
  <2>10. RequestsAreNamed'
    BY <2>2, <2>3, <2>6, <2>8 DEF RequestsAreNamed
  <2> QED
    BY <2>4, <2>9, <2>10 DEF EntryInv
<1>3. ASSUME UNCHANGED vars PROVE EntryInv'
  BY <1>3 DEF EntryInv, NewestInv, NothingLeaks, RequestsAreNamed, vars, own
<1>4. \/ newest' = NoEntry \/ UNCHANGED vars
      \/ \E th \in Thread : \E f, a \in Name \cup {None} : AppendEntry(th, f, a)
  BY DEF Next, Enter, StartTask, Take, Leave, LeaveView, EndJob, SetCurrentActor,
         SetCurrentTenant, ClearCurrentActor, ClearCurrentTenant, Works
<1> QED BY <1>1, <1>2, <1>3, <1>4

LEMMA InvCorrect == Spec => [](TypeOK /\ ContextInv /\ EntryInv)
<1>1. Init => TypeOK /\ ContextInv /\ EntryInv
  BY DEF Init, TypeOK, ContextInv, EntryInv, NewestInv, NothingLeaks, RequestsAreNamed, NoEntry
<1>2. TypeOK /\ ContextInv /\ EntryInv /\ [Next]_vars => (TypeOK /\ ContextInv /\ EntryInv)'
  BY TypeStep, ContextStep, EntryStep
<1> QED BY <1>1, <1>2, PTL DEF Spec

\* No entry carries what another request brought or its view set, however requests and tasks
\* follow each other on a thread or run on several; of other jobs only what a task or a
\* streamed body has left uncleared on the thread can reach an entry.
THEOREM NothingLeaksCorrect == Spec => []NothingLeaks
<1>1. TypeOK /\ ContextInv /\ EntryInv => NothingLeaks
  BY DEF EntryInv
<1> QED BY <1>1, InvCorrect, PTL

\* The entries made in a request name its user, or an actor the view or the instance's
\* actor_field gave, and carry its tenant when it had a header, unless the view has cleared
\* the actor or the tenant itself.
THEOREM RequestsAreNamedCorrect == Spec => []RequestsAreNamed
<1>1. TypeOK /\ ContextInv /\ EntryInv => RequestsAreNamed
  BY DEF EntryInv
<1> QED BY <1>1, InvCorrect, PTL
=============================================================================
