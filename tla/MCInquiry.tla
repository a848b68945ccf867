------------------------------ MODULE MCInquiry ------------------------------
(* The instances TLC checks; requests, queries and documents are model     *)
(* values.  Each initial state belongs to one part: an inquiry, one        *)
(* query's data, on which the operators of SearchAnswer are checked, a     *)
(* list shown in pages, or the limit on a client's requests.               *)
EXTENDS Inquiry, SearchAnswer, RateLimiter, Pagination

NoInquiry ==
    /\ kb = FALSE /\ inquiry = FALSE /\ messages = {}
    /\ docs = [d \in Docs |-> "absent"]
    /\ requests = [r \in Requests |-> IdleRequest]

NoPages == PageInit /\ list = <<>>

MCInit ==
    \/ Init /\ input = NoInput /\ NoPages /\ LimiterInit
    \/ NoInquiry /\ input \in Inputs /\ NoPages /\ LimiterInit
    \/ NoInquiry /\ input = [kind |-> "pages"] /\ PageInit /\ LimiterInit
    \/ NoInquiry /\ input = [kind |-> "limiter"] /\ NoPages /\ LimiterInit

MCNext ==
    \/ input.kind \notin {"pages", "limiter"} /\ Next /\ UNCHANGED <<input, pageVars, limiterVars>>
    \/ input.kind = "pages" /\ PageNext /\ UNCHANGED <<vars, input, limiterVars>>
    \/ input.kind = "limiter" /\ LimiterNext /\ UNCHANGED <<vars, input, pageVars>>

MCSpec == MCInit /\ [][MCNext]_<<vars, input, pageVars, limiterVars>>

\* No property names a request, a query, a document or a replica.
DataSymmetry == Permutations(Requests) \cup Permutations(Queries) \cup Permutations(Docs)
                    \cup Permutations(Replicas)
=============================================================================
