--------------------------- MODULE RequestContext ---------------------------
(***************************************************************************)
(* Who an audit entry names as actor and tenant: the thread-local context  *)
(* of osivault.audit.signals, OSIVaultAuditMiddleware that fills it around *)
(* a request, code that fills it itself, in a view or in a task outside    *)
(* any request, and resolve_actor and resolve_tenant, which the handlers   *)
(* of register_audit_signal ask.  A thread serves one request or task at a *)
(* time; the body of a streamed response is produced after the middleware  *)
(* has returned.  Nothing but the middleware clears the context by itself: *)
(* what a task or a streamed body sets stays on its thread unless that     *)
(* code clears it.                                                         *)
(***************************************************************************)
EXTENDS Integers

CONSTANTS
  Thread,
  Job,        \* requests and tasks
  NoJob,
  Name,       \* users, and whatever else is named as an actor
  Tenant,
  None,       \* not set, no header, no such attribute
  Anonymous, System, DefaultTenant   \* the names the code falls back to

ASSUME NameAssumption ==
  /\ {None, Anonymous, System} \cap Name = {} /\ System # None /\ Anonymous \notin {None, System}
  /\ {None, DefaultTenant} \cap Tenant = {} /\ None # DefaultTenant /\ NoJob \notin Job

VARIABLES
  current_actor,   \* current_actor[th], current_tenant[th]: the thread-locals
  current_tenant,
  serving,         \* serving[th]: the job th works on
  stage,           \* stage[j]: "new", "view", "stream", "task" or "over"
  user, header,    \* user[j], header[j]: request.user (None if not logged in), X-Tenant-ID
  ownActors,       \* history: the actors and tenants a job brought or set itself, with None
  ownTenants,      \* when it cleared them
  leftActor,       \* history: leftActor[th], leftTenant[th]: what was set on th outside views
  leftTenant,      \* last, unless it was cleared or a view has ended since
  newest           \* the entry the last step appended, with its job, the job's stage and what
                   \* was left on the thread

NoEntry == [stage |-> "none"]
locals == <<current_actor, current_tenant>>
own == <<ownActors, ownTenants>>
left == <<leftActor, leftTenant>>
vars == <<locals, serving, stage, user, header, own, left, newest>>

Init ==
  /\ current_actor = [th \in Thread |-> None] /\ current_tenant = [th \in Thread |-> None]
  /\ serving = [th \in Thread |-> NoJob] /\ stage = [j \in Job |-> "new"]
  /\ user \in [Job -> Name \cup {None}] /\ header \in [Job -> Tenant \cup {None}]
  /\ ownActors = [j \in Job |-> {}] /\ ownTenants = [j \in Job |-> {}]
  /\ leftActor = [th \in Thread |-> None] /\ leftTenant = [th \in Thread |-> None]
  /\ newest = NoEntry

Take(th, j, s) ==
  /\ serving[th] = NoJob /\ stage[j] = "new"
  /\ serving' = [serving EXCEPT ![th] = j] /\ stage' = [stage EXCEPT ![j] = s]
  /\ newest' = NoEntry

-----------------------------------------------------------------------------
(* OSIVaultAuditMiddleware.__call__                                        *)

ActorOf(j) == IF user[j] = None THEN Anonymous ELSE user[j]

Enter(th, j) ==
  /\ Take(th, j, "view")
  /\ current_actor' = [current_actor EXCEPT ![th] = ActorOf(j)]
  /\ current_tenant' = [current_tenant EXCEPT ![th] = IF header[j] = None THEN @ ELSE header[j]]
  /\ ownActors' = [ownActors EXCEPT ![j] = {ActorOf(j)}]
  /\ ownTenants' = [ownTenants EXCEPT ![j] = {header[j]} \ {None}]
  /\ UNCHANGED <<user, header, left>>

LeaveView(th, next) ==
  LET j == serving[th] IN
  /\ j # NoJob /\ stage[j] = "view" /\ stage' = [stage EXCEPT ![j] = next]
  /\ serving' = [serving EXCEPT ![th] = IF next = "stream" THEN j ELSE NoJob]
  /\ leftActor' = [leftActor EXCEPT ![th] = None]
  /\ leftTenant' = [leftTenant EXCEPT ![th] = None]
  /\ newest' = NoEntry

\* Mutant: the tenant is not cleared.
LeaveKeepingTenant(th, next) ==
  /\ LeaveView(th, next)
  /\ current_actor' = [current_actor EXCEPT ![th] = None]
  /\ UNCHANGED <<current_tenant, user, header, own>>

\* finally: also when the view raised.
Leave(th, next) ==
  /\ LeaveView(th, next)
  /\ current_actor' = [current_actor EXCEPT ![th] = None]
  /\ current_tenant' = [current_tenant EXCEPT ![th] = None]
  /\ UNCHANGED <<user, header, own>>

-----------------------------------------------------------------------------
(* The functions that set and clear the context, called by a view, by a    *)
(* task or while a body is streamed.                                       *)

Works(th, j) ==
  j # NoJob /\ stage[j] \in {"view", "task", "stream"} /\ newest' = NoEntry
LeftBy(j, value, before) == IF stage[j] = "view" THEN before ELSE value

SetCurrentActor(th, a) ==
  LET j == serving[th] IN
  /\ Works(th, j)
  /\ current_actor' = [current_actor EXCEPT ![th] = a]
  /\ ownActors' = [ownActors EXCEPT ![j] = @ \cup {a}]
  /\ leftActor' = [leftActor EXCEPT ![th] = LeftBy(j, a, @)]
  /\ UNCHANGED <<current_tenant, serving, stage, user, header, ownTenants, leftTenant>>

SetCurrentTenant(th, n) ==
  LET j == serving[th] IN
  /\ Works(th, j)
  /\ current_tenant' = [current_tenant EXCEPT ![th] = n]
  /\ ownTenants' = [ownTenants EXCEPT ![j] = @ \cup {n}]
  /\ leftTenant' = [leftTenant EXCEPT ![th] = LeftBy(j, n, @)]
  /\ UNCHANGED <<current_actor, serving, stage, user, header, ownActors, leftActor>>

ClearCurrentActor(th) ==
  LET j == serving[th] IN
  /\ Works(th, j)
  /\ current_actor' = [current_actor EXCEPT ![th] = None]
  /\ ownActors' = [ownActors EXCEPT ![j] = @ \cup {None}]
  /\ leftActor' = [leftActor EXCEPT ![th] = None]
  /\ UNCHANGED <<current_tenant, serving, stage, user, header, ownTenants, leftTenant>>

ClearCurrentTenant(th) ==
  LET j == serving[th] IN
  /\ Works(th, j)
  /\ current_tenant' = [current_tenant EXCEPT ![th] = None]
  /\ ownTenants' = [ownTenants EXCEPT ![j] = @ \cup {None}]
  /\ leftTenant' = [leftTenant EXCEPT ![th] = None]
  /\ UNCHANGED <<current_actor, serving, stage, user, header, ownActors, leftActor>>

StartTask(th, j) ==
  /\ Take(th, j, "task")
  /\ UNCHANGED <<locals, user, header, own, left>>

\* The end of a task, also by an exception, and of the body of a streamed response.
EndJob(th) ==
  LET j == serving[th] IN
  /\ j # NoJob /\ stage[j] \in {"task", "stream"} /\ stage' = [stage EXCEPT ![j] = "over"]
  /\ serving' = [serving EXCEPT ![th] = NoJob] /\ newest' = NoEntry
  /\ UNCHANGED <<locals, user, header, own, left>>

-----------------------------------------------------------------------------
(* An entry for a change of an instance: field is the value of its         *)
(* actor_field, attribute that of its actor, created_by, ... attributes.   *)

\* Mutant: the attributes of the instance come before the thread's actor.
ResolveActorByAttribute(th, field, attribute) ==
  CASE field # None -> field
    [] field = None /\ attribute # None -> attribute
    [] field = None /\ attribute = None /\ current_actor[th] # None -> current_actor[th]
    [] OTHER -> System

ResolveActor(th, field, attribute) ==
  CASE field # None -> field
    [] field = None /\ current_actor[th] # None -> current_actor[th]
    [] field = None /\ current_actor[th] = None /\ attribute # None -> attribute
    [] OTHER -> System

ResolveTenantUnset(th) == current_tenant[th]    \* mutant: no default
ResolveTenant(th) == IF current_tenant[th] # None THEN current_tenant[th] ELSE DefaultTenant

AppendEntry(th, field, attribute) ==
  LET j == serving[th] IN
  /\ j # NoJob
  /\ newest' = [job |-> j, stage |-> stage[j], field |-> field,
                attribute |-> attribute, actor |-> ResolveActor(th, field, attribute),
                tenant |-> ResolveTenant(th),
                leftActor |-> leftActor[th], leftTenant |-> leftTenant[th]]
  /\ UNCHANGED <<locals, serving, stage, user, header, own, left>>

-----------------------------------------------------------------------------
Next ==
  \E th \in Thread :
    \/ \E j \in Job : Enter(th, j) \/ StartTask(th, j)
    \/ Leave(th, "over") \/ Leave(th, "stream") \/ EndJob(th)
    \/ \E a \in Name : SetCurrentActor(th, a)
    \/ \E n \in Tenant : SetCurrentTenant(th, n)
    \/ ClearCurrentActor(th) \/ ClearCurrentTenant(th)
    \/ \E f, a \in Name \cup {None} : AppendEntry(th, f, a)

Spec == Init /\ [][Next]_vars

-----------------------------------------------------------------------------
(* Properties.                                                             *)

Actor == Name \cup {Anonymous, System}
TypeOK ==
  /\ current_actor \in [Thread -> Name \cup {Anonymous, None}]
  /\ current_tenant \in [Thread -> Tenant \cup {None}]
  /\ serving \in [Thread -> Job \cup {NoJob}]
  /\ stage \in [Job -> {"new", "view", "stream", "task", "over"}]
  /\ user \in [Job -> Name \cup {None}] /\ header \in [Job -> Tenant \cup {None}]
  /\ ownActors \in [Job -> SUBSET (Name \cup {Anonymous, None})]
  /\ ownTenants \in [Job -> SUBSET (Tenant \cup {None})]
  /\ leftActor \in [Thread -> Name \cup {None}] /\ leftTenant \in [Thread -> Tenant \cup {None}]
  /\ newest # NoEntry => newest.actor \in Actor /\ newest.tenant \in Tenant \cup {DefaultTenant}

\* What a request brings or its view sets is in no entry of another job, also when the view
\* raised or its body is streamed: an actor comes from the instance, a tenant from the
\* default, both from the job itself or from what code outside views has left on the thread.
\* (A request without tenant header has no other: it is recorded under a tenant that a task
\* has left.)
NothingLeaks ==
  newest # NoEntry =>
    /\ newest.actor \in {newest.field, newest.attribute, System, newest.leftActor}
                       \cup ownActors[newest.job]
    /\ newest.tenant \in {DefaultTenant, newest.leftTenant} \cup ownTenants[newest.job]

\* Inside a request nothing is put down to "system", to whoever an instance happens to name
\* as its creator, or to what an earlier task has left: the entry names who made the request,
\* an actor the view has set, or the actor_field; and the tenant is the one of the header or
\* one the view has set.  A view that clears either is on its own.
RequestsAreNamed ==
  newest.stage = "view" =>
    /\ None \notin ownActors[newest.job] =>
         newest.actor \in ownActors[newest.job] \cup ({newest.field} \ {None})
    /\ header[newest.job] # None /\ None \notin ownTenants[newest.job] =>
         newest.tenant \in ownTenants[newest.job]

\* The inductive invariant behind both: the context holds what the job brought or set, or
\* what was left; in a view the actor is the job's own, and so is the tenant with a header.
ContextOf(th, j) ==
  /\ stage[j] \in {"view", "stream", "task"}
  /\ current_actor[th] \in ownActors[j] \cup {leftActor[th], None}
  /\ current_tenant[th] \in ownTenants[j] \cup {leftTenant[th], None}
  /\ stage[j] = "view" => /\ current_actor[th] \in ownActors[j]
                          /\ header[j] # None => current_tenant[th] \in ownTenants[j]
  \* What a job that is not a view has set and not cleared is what is left.
  /\ stage[j] # "view" => /\ current_actor[th] \in {leftActor[th], None}
                          /\ current_tenant[th] \in {leftTenant[th], None}
ContextInv ==
  /\ \A th \in Thread : IF serving[th] = NoJob
                        THEN /\ current_actor[th] \in {leftActor[th], None}
                             /\ current_tenant[th] \in {leftTenant[th], None}
                        ELSE ContextOf(th, serving[th])
  /\ \A th, q \in Thread : serving[th] = serving[q] /\ th # q => serving[th] = NoJob
NewestInv == newest # NoEntry => newest.job \in Job /\ stage[newest.job] # "new"
=============================================================================
