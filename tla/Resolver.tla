------------------------------- MODULE Resolver -------------------------------
(***************************************************************************)
(* resolve_query (dns_resolver.py), the code all transports answer with.   *)
(* A worker is a thread that calls it: for one connection after another    *)
(* message, for one request, or for one datagram.  The policy's verdict    *)
(* and the upstream server's answer are free here; PolicyCheck is about    *)
(* the one, and QueryLog about what becomes of a log entry.                *)
(***************************************************************************)
EXTENDS Naturals, Sequences

CONSTANTS
    Worker,
    Message,   \* the byte strings that arrive as messages
    Malformed, \* those DNSRecord.parse raises DNSError for
    NoReply,   \* no reply has been made yet
    MaxAnswer  \* bound: records in an upstream answer

ASSUME MessageAssumption == Malformed \subseteq Message
ASSUME AnswerAssumption  == MaxAnswer \in Nat

Reply == [query : Message, rcode : {"NOERROR", "NXDOMAIN", "SERVFAIL"},
          answers : 0 .. MaxAnswer]

ASSUME NoReplyAssumption == NoReply \notin Reply

VARIABLES
    task,     \* where a worker's call of resolve_query is
    asked,    \* history: the messages a worker has called it with
    response, \* what the call returns
    logged    \* the messages of a worker's log_query calls

resolver == <<task, asked, response, logged>>

TaskStage == {"idle", "check", "forward", "done", "raised"}
Query(w)  == asked[w][Len(asked[w])]

ResolverTypeOK ==
    /\ task \in [Worker -> TaskStage] /\ asked \in [Worker -> Seq(Message)]
    /\ response \in [Worker -> Reply \cup {NoReply}]
    /\ logged \in [Worker -> Seq(Message)]

ResolverInit ==
    /\ task = [w \in Worker |-> "idle"] /\ asked = [w \in Worker |-> <<>>]
    /\ response = [w \in Worker |-> NoReply]
    /\ logged = [w \in Worker |-> <<>>]
-----------------------------------------------------------------------------
\* the call, up to the parsed request
Resolve(w, m) ==
    /\ task' = [task EXCEPT ![w] = IF m \in Malformed THEN "raised" ELSE "check"]
    /\ asked' = [asked EXCEPT ![w] = Append(@, m)]
    /\ UNCHANGED <<response, logged>>

\* log_query and the return of request.reply() with a code and records, whose
\* pack() may raise
Return(w, rcode, n) ==
    /\ \/ /\ task' = [task EXCEPT ![w] = "done"]
          /\ response' = [response EXCEPT ![w] =
                 [query |-> Query(w), rcode |-> rcode, answers |-> n]]
       \/ task' = [task EXCEPT ![w] = "raised"] /\ UNCHANGED response
    /\ logged' = [logged EXCEPT ![w] = Append(@, Query(w))]
    /\ UNCHANGED asked

Blocked(w) == task[w] = "check" /\ Return(w, "NXDOMAIN", 0)

Allowed(w) ==
    /\ task[w] = "check" /\ task' = [task EXCEPT ![w] = "forward"]
    /\ UNCHANGED <<asked, response, logged>>

\* get_profile's SELECT raises, which resolve_query does not catch
CheckRaises(w) ==
    /\ task[w] = "check" /\ task' = [task EXCEPT ![w] = "raised"]
    /\ UNCHANGED <<asked, response, logged>>

\* the records are copied; the upstream's own rcode is not
UpstreamAnswers(w) ==
    /\ task[w] = "forward"
    /\ \E n \in 0 .. MaxAnswer : Return(w, "NOERROR", n)

\* fault: only the answers are logged
FailureNotLogged(w) ==
    /\ task[w] = "forward" /\ task' = [task EXCEPT ![w] = "done"]
    /\ response' = [response EXCEPT ![w] =
           [query |-> Query(w), rcode |-> "SERVFAIL", answers |-> 0]]
    /\ UNCHANGED <<asked, logged>>

\* a timeout, an unreachable server or an answer that does not parse, also
\* after some records were copied: the reply is begun anew
UpstreamFails(w) == task[w] = "forward" /\ Return(w, "SERVFAIL", 0)

ResolverStep(w) ==
    \/ Blocked(w) \/ Allowed(w) \/ CheckRaises(w)
    \/ UpstreamAnswers(w) \/ UpstreamFails(w)

\* the caller has the result
Returned(w) ==
    /\ task' = [task EXCEPT ![w] = "idle"]
    /\ UNCHANGED <<asked, response, logged>>
=============================================================================
