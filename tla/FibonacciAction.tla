--------------------------- MODULE FibonacciAction ---------------------------
(***************************************************************************)
(* The Fibonacci action servers and clients, in C++ and in Python, in any  *)
(* combination: one server, and a client for every goal.                   *)
(*                                                                         *)
(* The C++ server executes every goal in a detached thread.  The Python    *)
(* server executes goals on the threads of its executor, where a sleeping  *)
(* goal keeps its thread, and needs another one for the timer of the rate  *)
(* that wakes it, and for its services.                                    *)
(*                                                                         *)
(* Goal requests, responses, cancel requests and results are services,     *)
(* feedback is a topic: none is lost, but they do not wait for one         *)
(* another.  A sequence is represented by the number of its terms, as the  *)
(* terms are those of Fibonacci up to MaxTerms, what fits in an int32.     *)
(* Servers are not shut down.                                              *)
(***************************************************************************)
EXTENDS Integers, FiniteSets

CONSTANTS
  Goals,         \* the goals, each sent by a client of its own
  Orders,        \* values of order in a goal
  CancelAfters,  \* values of cancel_after in send_goal()
  Servers,       \* "cpp" and "py": the servers there may be
  Clients,       \* the clients there may be
  PoolThreads,   \* threads of the MultiThreadedExecutor
  MaxTerms       \* terms that fit in an int32: 47

ASSUME GoalsAssumption    == IsFiniteSet(Goals)
ASSUME OrdersAssumption   == Orders \subseteq Int /\ CancelAfters \subseteq Int
ASSUME LanguageAssumption == Servers \subseteq {"cpp", "py"} /\ Clients \subseteq {"cpp", "py"}
ASSUME BoundsAssumption   == PoolThreads \in Nat \ {0, 1} /\ MaxTerms \in Nat \ {0, 1}

VARIABLES
  server, kind, order, cancel_after,  \* who takes part, with what arguments
  phase,         \* where the server is with a goal
  terms,         \* terms in its partial_sequence
  canceling,     \* is_canceling()
  asked,         \* history: terms at the first check after the cancel was
                 \* accepted, 0 before
  client,        \* where the client is
  goal_handle,   \* it is set
  feedback_count,
  request, response, cancel,  \* on their way
  feedbacks      \* number of feedback messages on their way

config   == <<server, kind, order, cancel_after>>
serving  == <<phase, terms, canceling, asked>>
asking   == <<client, goal_handle, feedback_count>>
messages == <<request, response, cancel, feedbacks>>
vars     == <<config, serving, asking, messages>>

Executing == {"top", "checked", "sleeping"}
Terminal  == {"succeeded", "canceled", "aborted"}

Init ==
  /\ server \in Servers
  /\ kind \in [Goals -> Clients]
  /\ order \in [Goals -> Orders]
  /\ cancel_after \in [Goals -> CancelAfters]
  /\ phase = [g \in Goals |-> "none"]
  /\ terms = [g \in Goals |-> 2]
  /\ canceling = [g \in Goals |-> FALSE]
  /\ asked = [g \in Goals |-> 0]
  /\ client = [g \in Goals |-> "idle"]
  /\ goal_handle = [g \in Goals |-> FALSE]
  /\ feedback_count = [g \in Goals |-> 0]
  /\ request = {} /\ response = {} /\ cancel = {}
  /\ feedbacks = [g \in Goals |-> 0]

-----------------------------------------------------------------------------
(* The server *)

Running == {g \in Goals : phase[g] \in Executing}

(* A thread for a service, a timer or the execution of a goal.             *)
ThreadIsFree == server = "cpp" \/ Cardinality(Running) < PoolThreads

Goto(g, p) == phase' = [phase EXCEPT ![g] = p]

handle_goal(g) ==
  /\ g \in request
  /\ ThreadIsFree
  /\ request' = request \ {g}
  /\ response' = response \union {g}
  /\ Goto(g, "accepted")
  /\ UNCHANGED <<config, terms, canceling, asked, asking, cancel, feedbacks>>

\* handle_accepted() starts a thread; the executor of Python runs a task.
execute(g) ==
  /\ phase[g] = "accepted"
  /\ ThreadIsFree
  /\ Goto(g, "top")
  /\ UNCHANGED <<config, terms, canceling, asked, asking, messages>>

\* Broken variant: one term more.
LoopsOn_Inclusive(g) == terms[g] - 1 <= order[g]

\* i < order
LoopsOn(g) == terms[g] - 1 < order[g]

(* The condition of the loop and the check for a cancel at its top.  A     *)
(* goal may succeed from the canceling state.                              *)
execute_check(g) ==
  /\ phase[g] = "top"
  /\ Goto(g, IF ~LoopsOn(g)     THEN "succeeded"
             ELSE IF canceling[g] THEN "canceled"
             ELSE "checked")
  /\ UNCHANGED <<config, terms, canceling, asked, asking, messages>>

(* The next term, as feedback.  In C++ a sum of more than 31 bits wraps;   *)
(* Python's array refuses it, and a goal whose callback raises is aborted. *)
execute_append(g) ==
  /\ phase[g] = "checked"
  /\ IF server = "py" /\ terms[g] = MaxTerms
     THEN Goto(g, "aborted") /\ UNCHANGED <<terms, feedbacks>>
     ELSE /\ Goto(g, "sleeping")
          /\ terms' = [terms EXCEPT ![g] = @ + 1]
          /\ feedbacks' = [feedbacks EXCEPT ![g] = @ + 1]
  /\ UNCHANGED <<config, canceling, asked, asking, request, response, cancel>>

rate_sleep(g) ==
  /\ server = "cpp"
  /\ phase[g] = "sleeping"
  /\ Goto(g, "top")
  /\ UNCHANGED <<config, terms, canceling, asked, asking, messages>>

(* The timer of the rate runs on a thread of the pool and wakes them all.  *)
rate_timer ==
  /\ server = "py"
  /\ ThreadIsFree
  /\ \E g \in Goals : phase[g] = "sleeping"
  /\ phase' = [g \in Goals |-> IF phase[g] = "sleeping" THEN "top" ELSE phase[g]]
  /\ UNCHANGED <<config, terms, canceling, asked, asking, messages>>

(* A request for a goal that is over, or canceling already, is rejected.   *)
handle_cancel(g) ==
  /\ g \in cancel
  /\ ThreadIsFree
  /\ cancel' = cancel \ {g}
  /\ IF phase[g] \in Executing \union {"accepted"} /\ ~canceling[g]
     THEN /\ canceling' = [canceling EXCEPT ![g] = TRUE]
          /\ asked' = [asked EXCEPT ![g] =
                         IF phase[g] = "checked" THEN terms[g] + 1 ELSE terms[g]]
     ELSE UNCHANGED <<canceling, asked>>
  /\ UNCHANGED <<config, phase, terms, asking, request, response, feedbacks>>

-----------------------------------------------------------------------------
(* A client *)

send_goal(g) ==
  /\ client[g] = "idle"
  /\ client' = [client EXCEPT ![g] = "waiting"]
  /\ request' = request \union {g}
  /\ UNCHANGED <<config, serving, goal_handle, feedback_count, response, cancel, feedbacks>>

\* Broken variant: the goal handle is not kept.
Kept_Not(g) == goal_handle

Kept(g) == [goal_handle EXCEPT ![g] = TRUE]

goal_response_callback(g) ==
  /\ g \in response
  /\ client[g] = "waiting"
  /\ response' = response \ {g}
  /\ goal_handle' = Kept(g)
  /\ UNCHANGED <<config, serving, client, feedback_count, request, cancel, feedbacks>>

\* The C++ client wants a positive cancel_after, the Python client takes any.
WantsCancel(g, count) ==
  /\ kind[g] = "cpp" => cancel_after[g] > 0
  /\ count >= cancel_after[g]

\* Broken variant: the client library passes on feedback for unknown goals.
Delivered_Always(g) == TRUE

(* In C++ the library ignores feedback for a goal without a response; in   *)
(* Python the callback is called.                                          *)
Delivered(g) == kind[g] = "py" \/ goal_handle[g]

(* Without a goal handle the callback of Python raises, out of spin().     *)
feedback_callback(g) ==
  /\ feedbacks[g] > 0
  /\ client[g] = "waiting"
  /\ feedbacks' = [feedbacks EXCEPT ![g] = @ - 1]
  /\ LET count == feedback_count[g] + 1
     IN  IF ~Delivered(g)
         THEN UNCHANGED <<feedback_count, client, cancel>>
         ELSE /\ feedback_count' = [feedback_count EXCEPT ![g] = count]
              /\ IF ~WantsCancel(g, count)
                 THEN UNCHANGED <<client, cancel>>
                 ELSE IF kind[g] = "py" /\ ~goal_handle[g]
                 THEN client' = [client EXCEPT ![g] = "crashed"] /\ UNCHANGED cancel
                 ELSE cancel' = cancel \union {g} /\ UNCHANGED client
  /\ UNCHANGED <<config, serving, goal_handle, request, response>>

(* The result is asked for with the goal handle, and the client shuts      *)
(* down.                                                                   *)
result_callback(g) ==
  /\ client[g] = "waiting"
  /\ goal_handle[g]
  /\ phase[g] \in Terminal
  /\ ThreadIsFree
  /\ client' = [client EXCEPT ![g] = "done"]
  /\ UNCHANGED <<config, serving, goal_handle, feedback_count, messages>>

-----------------------------------------------------------------------------
Serve(g) ==
  \/ handle_goal(g) \/ execute(g) \/ execute_check(g) \/ execute_append(g)
  \/ rate_sleep(g) \/ handle_cancel(g)

Ask(g) == goal_response_callback(g) \/ feedback_callback(g) \/ result_callback(g)

Next ==
  \/ \E g \in Goals : send_goal(g) \/ Serve(g) \/ Ask(g)
  \/ rate_timer

(* The threads and executors of servers and clients run; nobody has to     *)
(* send a goal.                                                            *)
Fairness ==
  /\ WF_vars(rate_timer)
  /\ \A g \in Goals :
       /\ WF_vars(handle_goal(g)) /\ WF_vars(handle_cancel(g))
       /\ WF_vars(execute(g)) /\ WF_vars(execute_check(g))
       /\ WF_vars(execute_append(g)) /\ WF_vars(rate_sleep(g))
       /\ WF_vars(goal_response_callback(g)) /\ WF_vars(feedback_callback(g))
       /\ WF_vars(result_callback(g))

Spec == Init /\ [][Next]_vars /\ Fairness

-----------------------------------------------------------------------------
(* What has been sent belongs together: no cancel without a goal handle,   *)
(* no response without a goal, no client ahead of its goal.                *)
TypeOK ==
  /\ server \in Servers
  /\ kind \in [Goals -> Clients]
  /\ order \in [Goals -> Orders] /\ cancel_after \in [Goals -> CancelAfters]
  /\ phase \in [Goals -> {"none", "accepted"} \union Executing \union Terminal]
  /\ terms \in [Goals -> Nat] /\ asked \in [Goals -> Nat]
  /\ canceling \in [Goals -> BOOLEAN]
  /\ client \in [Goals -> {"idle", "waiting", "done", "crashed"}]
  /\ goal_handle \in [Goals -> BOOLEAN]
  /\ feedback_count \in [Goals -> Nat] /\ feedbacks \in [Goals -> Nat]
  /\ request \subseteq {g \in Goals : phase[g] = "none" /\ client[g] # "idle"}
  /\ response \subseteq {g \in Goals : phase[g] # "none" /\ ~goal_handle[g]}
  /\ cancel \subseteq {g \in Goals : goal_handle[g]}
  /\ \A g \in Goals : /\ goal_handle[g] => phase[g] # "none"
                      /\ client[g] = "idle" => phase[g] = "none" /\ g \notin request

\* The terms that a goal of order n asks for.
Wanted(n) == IF n <= 1 THEN 2 ELSE n + 1

(* What a goal has come to follows from its order and the moment of the    *)
(* cancel, however client and server interleave: it is canceled at the     *)
(* first check after the cancel was accepted, and succeeds with every      *)
(* term when no check was left; only Python aborts, at what does not fit.  *)
(* A client has seen no more feedback than terms were added.               *)
OutcomeIsRight ==
  \A g \in Goals :
    /\ phase[g] = "succeeded" =>
         /\ terms[g] = Wanted(order[g])
         /\ asked[g] # 0 => asked[g] = terms[g]
    /\ phase[g] = "canceled" => asked[g] = terms[g] /\ terms[g] < Wanted(order[g])
    /\ phase[g] = "aborted"  => server = "py" /\ MaxTerms < Wanted(order[g])
    /\ server = "py" => terms[g] <= MaxTerms
    /\ feedback_count[g] + feedbacks[g] <= terms[g] - 2

(* Every thread of the pool sleeps in a goal, and the timer that would     *)
(* wake them waits for a thread.                                           *)
Starved ==
  server = "py" /\ Cardinality({g \in Goals : phase[g] = "sleeping"}) >= PoolThreads

(* A client that has sent a goal gets the result and ends, or ends with    *)
(* an exception, unless as many goals as the pool has threads were         *)
(* executed at once.                                                       *)
ClientEnds ==
  \A g \in Goals : client[g] = "waiting" ~> (client[g] \in {"done", "crashed"} \/ Starved)

-----------------------------------------------------------------------------
(* What makes OutcomeIsRight inductive *)
ProgressIsRight ==
  \A g \in Goals :
    /\ 2 <= terms[g] /\ terms[g] <= Wanted(order[g])
    /\ phase[g] \in {"none", "accepted"} => terms[g] = 2
    /\ phase[g] = "checked" => terms[g] < Wanted(order[g])
    /\ canceling[g] <=> asked[g] # 0
    /\ phase[g] = "none" => asked[g] = 0
    /\ asked[g] # 0 /\ phase[g] = "checked" => asked[g] = terms[g] + 1
    /\ asked[g] # 0 /\ phase[g] \in {"accepted", "top", "sleeping"} => asked[g] = terms[g]

IInv == TypeOK /\ OutcomeIsRight /\ ProgressIsRight

=============================================================================
