---------------------------- MODULE TokenServer -----------------------------
(***************************************************************************)
(* What the processes of a machine are promised about tokens: a token      *)
(* serves one process at a time, and a process is given the answer to its  *)
(* own last request only, while it is the one served.  A process that was  *)
(* robbed of its token is told nothing: until it ends its call it may come *)
(* back uninvited and be given whatever answer the token has.              *)
(***************************************************************************)
EXTENDS FiniteSets

CONSTANTS Procs, Devices

VARIABLES
    user,          \* of each token: the process it serves, if any
    asked,         \* of each: the process whose request it took last, if any
    served,        \* of each process: whose request its answer was for
    robbed         \* the processes whose token was taken from them in this call

serverVars == <<user, asked, served, robbed>>

ServerInit ==
    /\ user = [d \in Devices |-> {}] /\ asked = [d \in Devices |-> {}]
    /\ served = [p \in Procs |-> {}] /\ robbed = {}

\* A free token takes a process on.
Take(p, d) ==
    /\ user[d] = {}
    /\ user' = [user EXCEPT ![d] = {p}]
    /\ UNCHANGED <<asked, served, robbed>>

\* A token is taken from the process it serves.
Steal(d) ==
    /\ user[d] # {}
    /\ user' = [user EXCEPT ![d] = {}]
    /\ robbed' = robbed \cup user[d]
    /\ UNCHANGED <<asked, served>>

\* The process that is served, or a robbed one if none is.
Serving(p, d) ==
    /\ user[d] = {p} \/ (p \in robbed /\ user[d] = {})
    /\ user' = [user EXCEPT ![d] = {p}]

Ask(p, d) ==
    /\ Serving(p, d)
    /\ asked' = [asked EXCEPT ![d] = {p}]
    /\ UNCHANGED <<served, robbed>>

\* It gets an answer: to its own request, unless it was robbed.
Answer(p, d) ==
    /\ Serving(p, d)
    /\ asked[d] = {p} \/ p \in robbed
    /\ served' = [served EXCEPT ![p] = asked[d]]
    /\ UNCHANGED <<asked, robbed>>

Leave(p) ==
    /\ user' = [d \in Devices |-> user[d] \ {p}]
    /\ UNCHANGED <<asked, served, robbed>>

\* A new call, or the end of the process: requests and answer are forgotten.
Forget(p) ==
    /\ asked' = [d \in Devices |-> asked[d] \ {p}]
    /\ served' = [served EXCEPT ![p] = {}]
    /\ robbed' = robbed \ {p}
    /\ user' \in {user, [d \in Devices |-> user[d] \ {p}]}

\* A token goes at any moment, and another comes in its place.
Go(d) ==
    /\ user' = [user EXCEPT ![d] = {}] /\ asked' = [asked EXCEPT ![d] = {}]
    /\ UNCHANGED <<served, robbed>>

Serve(p) ==
    Leave(p) \/ Forget(p) \/ \E d \in Devices : Take(p, d) \/ Ask(p, d) \/ Answer(p, d)

ServerNext == (\E p \in Procs : Serve(p)) \/ \E d \in Devices : Go(d) \/ Steal(d)

ServerSpec == ServerInit /\ [][ServerNext]_serverVars

=============================================================================
