------------------------------- MODULE LLMPool -------------------------------
(***************************************************************************)
(* The pool of LLM providers: chat() of OpenAICompatiblePool and           *)
(* MiniBridgePool, called by many trajectories of one event loop.          *)
(*                                                                         *)
(* A trajectory has at most one call at a time, so calls are named by the  *)
(* trajectory's task.  An attempt runs inside the provider's semaphore and *)
(* waits for its next try outside of it.  A caller may cancel its call at  *)
(* every await.                                                            *)
(***************************************************************************)
EXTENDS Integers, FiniteSets

CONSTANTS
    NumTasks,        \* tasks of a minibatch
    Providers,
    MaxConcurrency,  \* ProviderSpec.max_concurrency
    MaxRetries       \* ProviderSpec.max_retries, which counts attempts

ASSUME PoolAssumption ==
    /\ NumTasks \in Nat /\ MaxConcurrency \in Nat \ {0} /\ MaxRetries \in Nat \ {0}
    /\ Providers # {}

VARIABLES
    call,     \* the chat() of each task
    permits,  \* the value of each provider's semaphore
    ledger    \* lines of the cost ledger, by task (see Coordination)

poolVars == <<call, permits, ledger>>

-----------------------------------------------------------------------------
Tasks == 1..NumTasks

\* A coroutine that has not run yet (the task that wait_for made of it), one suspended
\* in the semaphore, in the POST or in the wait between attempts, and one that has
\* returned or raised.
Suspended == {"starting", "queued", "posting", "backoff"}
Call == [at: Suspended \cup {"none", "answered", "failed"},
         provider: Providers, attempt: 0..MaxRetries]

PoolTypeOK ==
    /\ call \in [Tasks -> Call]
    /\ permits \in [Providers -> Nat]
    /\ ledger \in [Tasks -> Nat]

\* A call that is to start an attempt has one left.
AttemptInv == \A t \in Tasks :
    call[t].at \in {"starting", "backoff"} => call[t].attempt < MaxRetries

PoolInit ==
    /\ call \in [Tasks -> {[at |-> "none", provider |-> p, attempt |-> 0] : p \in Providers}]
    /\ permits = [p \in Providers |-> MaxConcurrency]
    /\ ledger = [t \in Tasks |-> 0]

Queued(p) == {t \in Tasks : call[t].at = "queued" /\ call[t].provider = p}
Posting(p) == {t \in Tasks : call[t].at = "posting" /\ call[t].provider = p}

-----------------------------------------------------------------------------
Calling(t, p) == call' = [call EXCEPT ![t] = [at |-> "starting", provider |-> p, attempt |-> 0]]
Moved(t, at, attempt) == [at |-> at, provider |-> call[t].provider, attempt |-> attempt]
Forgotten(t) == call' = [call EXCEPT ![t] = Moved(t, "none", 0)]

\* Variant: no semaphore around the request.
EnterUnlimited(t) ==
    /\ call[t].at \in {"starting", "backoff"}
    /\ LET p == call[t].provider
       IN  /\ call' = [call EXCEPT ![t] = Moved(t, "posting", @.attempt + 1)]
           /\ permits' = [permits EXCEPT ![p] = @ - 1]
    /\ UNCHANGED ledger

\* An attempt enters the semaphore, or waits for it.
Enter(t) ==
    /\ call[t].at \in {"starting", "backoff"}
    /\ LET p == call[t].provider
       IN  \/ /\ permits[p] > 0
              /\ call' = [call EXCEPT ![t] = Moved(t, "posting", @.attempt + 1)]
              /\ permits' = [permits EXCEPT ![p] = @ - 1]
           \/ /\ permits[p] = 0
              /\ call' = [call EXCEPT ![t] = Moved(t, "queued", @.attempt + 1)]
              /\ UNCHANGED permits
    /\ UNCHANGED ledger

\* The POST is over, and with it the attempt's stay in the semaphore: release() gives
\* the permit to an attempt that waits, or back.  (asyncio takes the first one, whose
\* task resumes later with the permit; nothing depends on either.)
Leave(t, next, attempt) ==
    LET p == call[t].provider
    IN  /\ call[t].at = "posting"
        /\ \/ \E w \in Queued(p) :
                 /\ call' = [call EXCEPT ![t] = Moved(t, next, attempt), ![w].at = "posting"]
                 /\ UNCHANGED permits
           \/ /\ Queued(p) = {}
              /\ call' = [call EXCEPT ![t] = Moved(t, next, attempt)]
              /\ permits' = [permits EXCEPT ![p] = @ + 1]

\* 200: one ledger line, whatever the completion holds, none included.
Answer(t) == Leave(t, "answered", 0) /\ ledger' = [ledger EXCEPT ![t] = @ + 1]

\* Another status, no JSON, or MiniBridge's ok = false: not retried.
Reject(t) == Leave(t, "failed", 0) /\ UNCHANGED ledger

\* Variants: attempts are not counted; every attempt writes to the ledger.
TransientForever(t) == Leave(t, "backoff", 0) /\ UNCHANGED ledger
TransientMetered(t) ==
    /\ Leave(t, IF call[t].attempt < MaxRetries THEN "backoff" ELSE "failed", call[t].attempt)
    /\ ledger' = [ledger EXCEPT ![t] = @ + 1]

\* A timeout, a broken connection, 429 or 5xx.
Transient(t) ==
    /\ Leave(t, IF call[t].attempt < MaxRetries THEN "backoff" ELSE "failed", call[t].attempt)
    /\ UNCHANGED ledger

\* Variant: a cancelled request keeps its permit.
CancelKeeps(t) ==
    /\ call[t].at \in Suspended
    /\ Forgotten(t)
    /\ UNCHANGED <<permits, ledger>>

\* The caller cancels the call: CancelledError at the await where it is suspended.
Cancel(t) ==
    /\ call[t].at \in Suspended
    /\ \/ Leave(t, "none", 0)
       \/ /\ call[t].at # "posting"
          /\ Forgotten(t)
          /\ UNCHANGED permits
    /\ UNCHANGED ledger

\* The request of t ends, as the provider or the client's timeout_s has it.
PostEnds(t) == Answer(t) \/ Reject(t) \/ Transient(t)

-----------------------------------------------------------------------------
\* A provider never has more than max_concurrency requests; permits are neither
\* lost nor invented by errors, retries and cancellations; and no attempt waits
\* for a permit that is free.
PermitsKept == \A p \in Providers :
    /\ permits[p] + Cardinality(Posting(p)) = MaxConcurrency
    /\ Queued(p) # {} => permits[p] = 0
=============================================================================
