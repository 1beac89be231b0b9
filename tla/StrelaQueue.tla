---------------------------- MODULE StrelaQueue ----------------------------
(***************************************************************************)
(* What the driver promises its clients: every job pushed by a client is   *)
(* finished exactly once, the jobs of one client in the order in which it  *)
(* pushed them, and the device works for one job at a time.  Neither the   *)
(* scheduler, nor the timeout handler, nor the device is visible here.     *)
(***************************************************************************)
EXTENDS Integers

CONSTANTS
  Clients,   \* open files, one scheduler entity each
  NoClient,  \* the owner of a job nobody has submitted
  MaxJobs    \* how many jobs are ever submitted

Jobs == 1..MaxJobs

VARIABLES
  stage,     \* where a job is, as its client can tell
  owner,     \* the client that submitted it, or NoClient
  ticket,    \* its place in its client's queue, 0 before it has one
  tickets,   \* places handed out so far
  outcome    \* what its fence reports

queueVars == <<stage, owner, ticket, tickets, outcome>>

Stages == {"none", "queued", "running", "done"}

Failures == {"ECANCELED", "ENODEV", "ESRCH"}

QInit ==
  /\ stage = [j \in Jobs |-> "none"]
  /\ owner = [j \in Jobs |-> NoClient]
  /\ ticket = [j \in Jobs |-> 0]
  /\ tickets = 0
  /\ outcome = [j \in Jobs |-> "none"]

\* A client starts a submission.
Claim(j, c) ==
  /\ owner[j] = NoClient
  /\ owner' = [owner EXCEPT ![j] = c]
  /\ UNCHANGED <<stage, ticket, tickets, outcome>>

\* Its job enters its queue.
Enqueue(j) ==
  /\ stage[j] = "none"
  /\ owner[j] # NoClient
  /\ stage' = [stage EXCEPT ![j] = "queued"]
  /\ ticket' = [ticket EXCEPT ![j] = tickets + 1]
  /\ tickets' = tickets + 1
  /\ UNCHANGED <<owner, outcome>>

\* The jobs that client of j pushed before j.
Before(j) == {i \in Jobs : /\ owner[i] = owner[j]
                           /\ ticket[i] > 0
                           /\ ticket[i] < ticket[j]}

\* The oldest job of a client gets the device, which nobody else is using.
Start(j) ==
  /\ stage[j] = "queued"
  /\ \A i \in Before(j) : stage[i] = "done"
  /\ \A i \in Jobs : stage[i] # "running"
  /\ stage' = [stage EXCEPT ![j] = "running"]
  /\ UNCHANGED <<owner, ticket, tickets, outcome>>

Finish(j, o) ==
  /\ stage' = [stage EXCEPT ![j] = "done"]
  /\ outcome' = [outcome EXCEPT ![j] = o]
  /\ UNCHANGED <<owner, ticket, tickets>>

\* The device ran the job, or the driver took the job off the device.
Complete(j) == stage[j] = "running" /\ Finish(j, "ok")
Fail(j) == stage[j] = "running" /\ \E o \in Failures : Finish(j, o)

\* A job that never started is discarded with the queue it was in.
Discard(j) ==
  /\ stage[j] = "queued"
  /\ \A i \in Before(j) : stage[i] = "done"
  /\ Finish(j, "ESRCH")

QNext ==
  \E j \in Jobs :
    \/ \E c \in Clients : Claim(j, c)
    \/ Enqueue(j)
    \/ Start(j)
    \/ Complete(j)
    \/ Fail(j)
    \/ Discard(j)

QSpec == QInit /\ [][QNext]_queueVars
=============================================================================
